---- MODULE Spec2Model ----
(***************************************************************************)
(* A model of libCellML's causalization-based code generator               *)
(* (src/src/generator.cpp): the expression tree builder (processNode),     *)
(* the variable registry (generatorVariable, GeneratorVariableImpl), the   *)
(* equation records and their check(), the driver processModel and the     *)
(* public queries of Generator.                                            *)
(*                                                                         *)
(* A Generator object is the record `gen`; the fields of GeneratorImpl     *)
(* keep their names.  Pointers to registry records (GeneratorVariable-     *)
(* ImplPtr) are positions in gen.mVariables, which only grows during a     *)
(* run.  A declared variable (VariablePtr) is a record whose identity is   *)
(* its <<component, name>> pair.                                           *)
(***************************************************************************)
EXTENDS Integers, Sequences, FiniteSets, TLC

(***************************************************************************)
(* Bounds of the model.                                                    *)
(***************************************************************************)
\* size_t is modelled with SizeBits bits (the code has 64).
SizeBits == 8
\* Largest number of equations in the math of the top-level component.
MaxEqs == 2
\* Largest number of processModel calls on one Generator.
MaxRuns == 2
MaxTerms == 4
MaxEvents == 4

Pow2(n) == 2 ^ n

\* static const size_t MAX_SIZE_T = std::numeric_limits<size_t>::max();
MAX_SIZE_T == Pow2(SizeBits) - 1

\* The value of counter++, which is the counter before the increment.
PostIncrement(counter) == counter

\* ++counter on a size_t.
PreIncrement(counter) == (counter + 1) % Pow2(SizeBits)

(***************************************************************************)
(* Small helpers on sequences.                                             *)
(***************************************************************************)
Range(s) == {s[i] : i \in DOMAIN s}

RECURSIVE SeqsUpTo(_, _)
\* All sequences over S of length at most n.
SeqsUpTo(S, n) ==
    IF n = 0 THEN {<<>>}
    ELSE LET shorter == SeqsUpTo(S, n - 1)
         IN  shorter \cup {Append(s, x) : s \in {t \in shorter : Len(t) = n - 1}, x \in S}

(***************************************************************************)
(* Content-markup nodes as delivered by the XML collaborator (XmlNode):    *)
(* an element name, the text of a token element and the child elements.    *)
(***************************************************************************)
Xml(el, text, ch) == [el |-> el, text |-> text, ch |-> ch]
XmlNone == [el |-> "#none", text |-> "", ch |-> <<>>]

XCi(name) == Xml("ci", name, <<>>)
XCn(value) == Xml("cn", value, <<>>)
XOp(el) == Xml(el, "", <<>>)
XApply(ch) == Xml("apply", "", ch)
XMath(ch) == Xml("math", "", ch)
XBvar(name) == Xml("bvar", "", <<XCi(name)>>)
XBvarDegree(name, degree) ==
    Xml("bvar", "", <<XCi(name), Xml("degree", "", <<XCn(degree)>>)>>)
\* d(x)/d(t), and the same with an explicit degree on the bound variable.
XDiff(x, t) == XApply(<<XOp("diff"), XBvar(t), XCi(x)>>)
XDiffDegree(x, t, degree) == XApply(<<XOp("diff"), XBvarDegree(t, degree), XCi(x)>>)
XEq(lhs, rhs) == XApply(<<XOp("eq"), lhs, rhs>>)
XPlus2(a, b) == XApply(<<XOp("plus"), a, b>>)

\* mathmlChildCount / mathmlChildNode (every child of the model is MathML).
mathmlChildCount(node) == Len(node.ch)
mathmlChildNode(node, index) ==
    IF index + 1 \in DOMAIN node.ch THEN node.ch[index + 1] ELSE XmlNone

(***************************************************************************)
(* Declared variables, components and models (read-only collaborators).    *)
(***************************************************************************)
Variable(component, name, initialValue, equivalence) ==
    [component |-> component, name |-> name,
     initialValue |-> initialValue, equivalence |-> equivalence]
NoVariable == [component |-> "", name |-> "", initialValue |-> "", equivalence |-> ""]

\* Variable::hasEquivalentVariable: the pre-built equivalence of the model.
\* Two distinct declared variables are equivalent when they carry the same
\* non-empty equivalence tag.
hasEquivalentVariable(variable, other) ==
    /\ variable # other
    /\ variable.equivalence # ""
    /\ variable.equivalence = other.equivalence

Component(name, variables, math, components) ==
    [name |-> name, variables |-> variables, math |-> math, components |-> components]

\* Component::variable(name); NoVariable stands for the null pointer.
ComponentVariable(component, name) ==
    IF \E i \in DOMAIN component.variables : component.variables[i].name = name
    THEN component.variables[CHOOSE i \in DOMAIN component.variables :
                                 /\ component.variables[i].name = name
                                 /\ \A j \in 1..(i - 1) : component.variables[j].name # name]
    ELSE NoVariable

(***************************************************************************)
(* GeneratorVariableImpl: a record of the variable registry.               *)
(***************************************************************************)
GeneratorVariableImplDefault ==
    [mType |-> "UNKNOWN", mIndex |-> MAX_SIZE_T, mVariable |-> NoVariable,
     mComputed |-> FALSE]

\* GeneratorVariableImpl::setVariable
setVariable(generatorVariable, variable) ==
    [generatorVariable EXCEPT
        !.mVariable = variable,
        !.mType = IF variable.initialValue # ""
                  THEN (IF @ = "UNKNOWN" THEN "CONSTANT"
                        ELSE IF @ = "SHOULD_BE_STATE" THEN "STATE"
                        ELSE @)
                  ELSE @]

\* GeneratorVariableImpl::GeneratorVariableImpl(variable)
NewGeneratorVariableImpl(variable) == setVariable(GeneratorVariableImplDefault, variable)

\* GeneratorVariableImpl::makeVariableOfIntegration
makeVariableOfIntegration(generatorVariable) ==
    [generatorVariable EXCEPT !.mType = "VARIABLE_OF_INTEGRATION"]

\* A makeState that takes every record but that of a constant for one of a
\* variable that should be a state.
makeStateUnlessConstant(generatorVariable) ==
    [generatorVariable EXCEPT
        !.mType = IF @ = "CONSTANT" THEN "STATE" ELSE "SHOULD_BE_STATE"]

\* GeneratorVariableImpl::makeState
makeState(generatorVariable) ==
    [generatorVariable EXCEPT
        !.mType = IF @ = "UNKNOWN" THEN "SHOULD_BE_STATE"
                  ELSE IF @ = "CONSTANT" THEN "STATE"
                  ELSE @]

\* The position in mVariables of the first record that holds the given
\* variable or one equivalent to it; 0 when there is none.
FindGeneratorVariable(mVariables, variable) ==
    LET matches(i) == \/ variable = mVariables[i].mVariable
                      \/ hasEquivalentVariable(variable, mVariables[i].mVariable)
    IN  IF \E i \in DOMAIN mVariables : matches(i)
        THEN CHOOSE i \in DOMAIN mVariables :
                 matches(i) /\ \A j \in 1..(i - 1) : ~matches(j)
        ELSE 0

\* Generator::GeneratorImpl::generatorVariable: the registry after the call
\* and the position of the returned record.
generatorVariable(mVariables, variable) ==
    LET found == FindGeneratorVariable(mVariables, variable)
    IN  IF found # 0
        THEN [mVariables |-> mVariables, at |-> found]
        ELSE [mVariables |-> Append(mVariables, NewGeneratorVariableImpl(variable)),
              at |-> Len(mVariables) + 1]

(***************************************************************************)
(* GeneratorEquationAstImpl: expression trees.  The parent pointers of the *)
(* code coincide with the tree structure once a tree is built, so they are *)
(* not stored: the walks below carry the ancestors with them.              *)
(***************************************************************************)
AstNull == [mType |-> "null"]
Ast(type, value, variable) ==
    [mType |-> type, mValue |-> value, mVariable |-> variable,
     mLeft |-> AstNull, mRight |-> AstNull]
IsNull(ast) == ast.mType = "null"
Left(ast) == IF IsNull(ast) THEN AstNull ELSE ast.mLeft
Right(ast) == IF IsNull(ast) THEN AstNull ELSE ast.mRight
WithLeft(ast, left) == IF IsNull(ast) THEN ast ELSE [ast EXCEPT !.mLeft = left]
WithRight(ast, right) == IF IsNull(ast) THEN ast ELSE [ast EXCEPT !.mRight = right]

\* The elements that processNode turns into a node with no further work.
SimpleElements ==
    {"neq", "lt", "leq", "gt", "geq", "plus", "minus", "times", "divide", "power",
     "root", "abs", "exp", "ln", "log", "ceiling", "floor", "factorial", "and", "or",
     "xor", "not", "diff", "min", "max", "gcd", "lcm", "sin", "cos", "tan", "sec",
     "csc", "cot", "sinh", "cosh", "tanh", "sech", "csch", "coth", "arcsin",
     "arccos", "arctan", "arcsec", "arccsc", "arccot", "arcsinh", "arccosh",
     "arctanh", "arcsech", "arccsch", "arccoth", "rem", "true", "false",
     "exponentiale", "pi", "infinity", "notanumber"}

\* The node type that processNode gives to an element.
AstType(el) ==
    CASE el = "neq" -> "NEQ" [] el = "lt" -> "LT" [] el = "leq" -> "LEQ"
      [] el = "gt" -> "GT" [] el = "geq" -> "GEQ" [] el = "plus" -> "PLUS"
      [] el = "minus" -> "MINUS" [] el = "times" -> "TIMES"
      [] el = "divide" -> "DIVIDE" [] el = "power" -> "POWER"
      [] el = "root" -> "ROOT" [] el = "abs" -> "ABS" [] el = "exp" -> "EXP"
      [] el = "ln" -> "LN" [] el = "log" -> "LOG" [] el = "ceiling" -> "CEILING"
      [] el = "floor" -> "FLOOR" [] el = "factorial" -> "FACTORIAL"
      [] el = "and" -> "AND" [] el = "or" -> "OR" [] el = "xor" -> "XOR"
      [] el = "not" -> "NOT" [] el = "diff" -> "DIFF" [] el = "min" -> "MIN"
      [] el = "max" -> "MAX" [] el = "gcd" -> "GCD" [] el = "lcm" -> "LCM"
      [] el = "sin" -> "SIN" [] el = "cos" -> "COS" [] el = "tan" -> "TAN"
      [] el = "sec" -> "SEC" [] el = "csc" -> "CSC" [] el = "cot" -> "COT"
      [] el = "sinh" -> "SINH" [] el = "cosh" -> "COSH" [] el = "tanh" -> "TANH"
      [] el = "sech" -> "SECH" [] el = "csch" -> "CSCH" [] el = "coth" -> "COTH"
      [] el = "arcsin" -> "ASIN" [] el = "arccos" -> "ACOS"
      [] el = "arctan" -> "ATAN" [] el = "arcsec" -> "ASEC"
      [] el = "arccsc" -> "ACSC" [] el = "arccot" -> "ACOT"
      [] el = "arcsinh" -> "ASINH" [] el = "arccosh" -> "ACOSH"
      [] el = "arctanh" -> "ATANH" [] el = "arcsech" -> "ASECH"
      [] el = "arccsch" -> "ACSCH" [] el = "arccoth" -> "ACOTH"
      [] el = "rem" -> "REM" [] el = "true" -> "TRUE" [] el = "false" -> "FALSE"
      [] el = "exponentiale" -> "E" [] el = "pi" -> "PI"
      [] el = "infinity" -> "INF" [] el = "notanumber" -> "NAN"
      [] OTHER -> "null"

(***************************************************************************)
(* GeneratorEquationImpl: equation records.  mVariables and mOdeVariables  *)
(* hold positions of registry records.                                     *)
(***************************************************************************)
NewGeneratorEquationImpl ==
    [mType |-> "UNKNOWN", mOrder |-> 0, mAst |-> Ast("EQ", "", NoVariable),
     mVariables |-> <<>>, mOdeVariables |-> <<>>,
     mTrulyConstant |-> TRUE, mVariableBasedConstant |-> TRUE]

\* GeneratorEquationImpl::addVariable
addVariable(equation, at) ==
    IF at \in Range(equation.mVariables) THEN equation
    ELSE [equation EXCEPT !.mVariables = Append(@, at)]

\* GeneratorEquationImpl::addOdeVariable
addOdeVariable(equation, at) ==
    IF at \in Range(equation.mOdeVariables) THEN equation
    ELSE [equation EXCEPT !.mOdeVariables = Append(@, at)]

(***************************************************************************)
(* Generator::GeneratorImpl::processNode(node, ast, astParent, component,  *)
(* equation).  `parent` and `grandParent` are node->parent() and           *)
(* node->parent()->parent(); `ast` is the value of the reference the       *)
(* result is stored through; st holds the registry and the equation being  *)
(* built.  The result is the new value of `ast` and the new st.            *)
(***************************************************************************)
RECURSIVE processNode(_, _, _, _, _, _)
RECURSIVE processApplyRight(_, _, _, _, _, _)
RECURSIVE processPiecewiseRight(_, _, _, _, _, _)

\* The loop of the apply case that folds the operands 2..childCount-2 of an
\* n-ary application around astRight, last operand first.
processApplyRight(node, parent, i, astRight, component, st) ==
    IF i <= 1 THEN [ast |-> astRight, st |-> st]
    ELSE LET op == processNode(mathmlChildNode(node, 0), node, parent, AstNull,
                               component, st)
             left == processNode(mathmlChildNode(node, i), node, parent, Left(op.ast),
                                 component, op.st)
             tempAst == WithRight(WithLeft(op.ast, left.ast), astRight)
         IN  processApplyRight(node, parent, i - 1, tempAst, component, left.st)

\* The loop of the piecewise case that folds the children 1..childCount-2
\* around astRight, last child first.
processPiecewiseRight(node, parent, i, astRight, component, st) ==
    IF i <= 0 THEN [ast |-> astRight, st |-> st]
    ELSE LET left == processNode(mathmlChildNode(node, i), node, parent, AstNull,
                                 component, st)
             tempAst == WithRight(WithLeft(Ast("PIECEWISE", "", NoVariable), left.ast),
                                  astRight)
         IN  processPiecewiseRight(node, parent, i - 1, tempAst, component, left.st)

processNode(node, parent, grandParent, ast, component, st) ==
    CASE node.el = "apply" ->
           LET childCount == mathmlChildCount(node)
               op == processNode(mathmlChildNode(node, 0), node, parent, ast,
                                 component, st)
               left == processNode(mathmlChildNode(node, 1), node, parent,
                                   Left(op.ast), component, op.st)
               withLeft == WithLeft(op.ast, left.ast)
           IN  IF childCount >= 3
               THEN LET last == processNode(mathmlChildNode(node, childCount - 1),
                                            node, parent, AstNull, component, left.st)
                        right == processApplyRight(node, parent, childCount - 2,
                                                   last.ast, component, last.st)
                    IN  [ast |-> WithRight(withLeft, right.ast), st |-> right.st]
               ELSE [ast |-> withLeft, st |-> left.st]
      [] node.el = "eq" ->
           \* "a = b" directly under math keeps the EQ node of the equation.
           IF grandParent.el # "math"
           THEN [ast |-> Ast("EQEQ", "", NoVariable), st |-> st]
           ELSE [ast |-> ast, st |-> st]
      [] node.el \in SimpleElements ->
           [ast |-> Ast(AstType(node.el), "", NoVariable), st |-> st]
      [] node.el = "piecewise" ->
           LET childCount == mathmlChildCount(node)
               left == processNode(mathmlChildNode(node, 0), node, parent, AstNull,
                                   component, st)
               withLeft == WithLeft(Ast("PIECEWISE", "", NoVariable), left.ast)
           IN  IF childCount >= 2
               THEN LET last == processNode(mathmlChildNode(node, childCount - 1),
                                            node, parent, AstNull, component, left.st)
                        right == processPiecewiseRight(node, parent, childCount - 2,
                                                       last.ast, component, last.st)
                    IN  [ast |-> WithRight(withLeft, right.ast), st |-> right.st]
               ELSE [ast |-> withLeft, st |-> left.st]
      [] node.el = "piece" ->
           LET left == processNode(mathmlChildNode(node, 0), node, parent, AstNull,
                                   component, st)
               right == processNode(mathmlChildNode(node, 1), node, parent, AstNull,
                                    component, left.st)
           IN  [ast |-> WithRight(WithLeft(Ast("PIECE", "", NoVariable), left.ast),
                                  right.ast),
                st |-> right.st]
      [] node.el = "otherwise" ->
           LET left == processNode(mathmlChildNode(node, 0), node, parent, AstNull,
                                   component, st)
           IN  [ast |-> WithLeft(Ast("OTHERWISE", "", NoVariable), left.ast),
                st |-> left.st]
      [] node.el = "cn" ->
           [ast |-> Ast("CN", node.text, NoVariable), st |-> st]
      [] node.el = "ci" ->
           LET variable == ComponentVariable(component, node.text)
               found == generatorVariable(st.mVariables, variable)
               isOde == \/ mathmlChildNode(parent, 0).el = "diff"
                        \/ /\ parent.el = "bvar"
                           /\ mathmlChildNode(grandParent, 0).el = "diff"
           IN  [ast |-> Ast("CI", "", variable),
                st |-> [mVariables |-> found.mVariables,
                        equation |-> IF isOde
                                     THEN addOdeVariable(st.equation, found.at)
                                     ELSE addVariable(st.equation, found.at)]]
      [] node.el \in {"degree", "logbase"} ->
           LET left == processNode(mathmlChildNode(node, 0), node, parent, AstNull,
                                   component, st)
           IN  [ast |-> WithLeft(Ast(IF node.el = "degree" THEN "DEGREE" ELSE "LOGBASE",
                                     "", NoVariable), left.ast),
                st |-> left.st]
      [] node.el = "bvar" ->
           LET left == processNode(mathmlChildNode(node, 0), node, parent, AstNull,
                                   component, st)
               rightNode == mathmlChildNode(node, 1)
               bvar == WithLeft(Ast("BVAR", "", NoVariable), left.ast)
           IN  IF rightNode # XmlNone
               THEN LET right == processNode(rightNode, node, parent, AstNull,
                                             component, left.st)
                    IN  [ast |-> WithRight(bvar, right.ast), st |-> right.st]
               ELSE [ast |-> bvar, st |-> left.st]
      [] OTHER -> [ast |-> ast, st |-> st]

\* Generator::GeneratorImpl::processNode(node, component): the equation of
\* one child of the math element, appended to mEquations.
processEquationNode(node, mathNode, component, mVariables) ==
    LET built == processNode(node, mathNode, XmlNone, NewGeneratorEquationImpl.mAst,
                             component,
                             [mVariables |-> mVariables,
                              equation |-> NewGeneratorEquationImpl])
    IN  [mVariables |-> built.st.mVariables,
         equation |-> [built.st.equation EXCEPT !.mAst = built.ast]]

(***************************************************************************)
(* GeneratorEquationImpl::check and its helpers.                           *)
(***************************************************************************)
\* A test that only finds the variable of integration.
containsVariablesOfIntegration(mVariables, variables) ==
    \E k \in DOMAIN variables : mVariables[variables[k]].mType = "VARIABLE_OF_INTEGRATION"

\* GeneratorEquationImpl::containsNonTrueConstantVariables, on the registry
\* records the list points to.
containsNonTrueConstantVariables(mVariables, variables) ==
    \E k \in DOMAIN variables : mVariables[variables[k]].mType # "UNKNOWN"

\* GeneratorEquationImpl::containsNonConstantVariables
containsNonConstantVariables(mVariables, variables) ==
    \E k \in DOMAIN variables :
        /\ mVariables[variables[k]].mType # "UNKNOWN"
        /\ mVariables[variables[k]].mType # "CONSTANT"

\* GeneratorEquationImpl::knownVariable
knownVariable(variable) ==
    \/ variable.mComputed
    \/ variable.mType = "VARIABLE_OF_INTEGRATION"
    \/ variable.mType = "STATE"
    \/ variable.mType = "CONSTANT"

\* A test for the ODE variables that takes the states and the constants for
\* known, as the test for the other variables does.
knownOdeVariableOrState(odeVariable) ==
    \/ odeVariable.mComputed
    \/ odeVariable.mType = "VARIABLE_OF_INTEGRATION"
    \/ odeVariable.mType = "STATE"
    \/ odeVariable.mType = "CONSTANT"

\* GeneratorEquationImpl::knownOdeVariable
knownOdeVariable(odeVariable) ==
    \/ odeVariable.mComputed
    \/ odeVariable.mType = "VARIABLE_OF_INTEGRATION"

\* A classification that knows no true constant.
ComputedTypeWithoutTrueConstants(equation) ==
    IF equation.mVariableBasedConstant THEN "COMPUTED_VARIABLE_BASED_CONSTANT"
    ELSE "ALGEBRAIC"

\* The type check() gives to a variable of unknown type.
ComputedType(equation) ==
    IF equation.mTrulyConstant THEN "COMPUTED_TRUE_CONSTANT"
    ELSE IF equation.mVariableBasedConstant THEN "COMPUTED_VARIABLE_BASED_CONSTANT"
    ELSE "ALGEBRAIC"

\* The type check() gives to an equation that determines a variable of the
\* given type.
EquationType(variableType) ==
    IF variableType = "STATE" THEN "RATE"
    ELSE IF variableType = "COMPUTED_TRUE_CONSTANT" THEN "TRUE_CONSTANT"
    ELSE IF variableType = "COMPUTED_VARIABLE_BASED_CONSTANT"
         THEN "VARIABLE_BASED_CONSTANT"
    ELSE "ALGEBRAIC"

\* The variable types for which check() gives an index and an order.
IndexedTypes ==
    {"STATE", "COMPUTED_TRUE_CONSTANT", "COMPUTED_VARIABLE_BASED_CONSTANT", "ALGEBRAIC"}

\* The only variable left in the two lists of an equation.
OnlyVariable(equation) ==
    IF Len(equation.mVariables) = 1 THEN equation.mVariables[1]
    ELSE equation.mOdeVariables[1]

\* bool GeneratorEquationImpl::check(equationOrder, stateIndex, variableIndex)
\* on equation number e of the state c (mVariables, mEquations and the three
\* counters); the result holds the new state and the returned value.
check(c, e) ==
    LET equation == c.mEquations[e]
        unchanged == [c EXCEPT !.result = FALSE]
        overconstraint ==
            /\ Len(equation.mVariables) + Len(equation.mOdeVariables) = 1
            /\ c.mVariables[OnlyVariable(equation)].mType # "UNKNOWN"
    IN  IF equation.mOrder # 0 THEN unchanged
        ELSE IF overconstraint THEN unchanged
        ELSE
        LET trulyConstant ==
                /\ equation.mTrulyConstant
                /\ ~containsNonTrueConstantVariables(c.mVariables, equation.mVariables)
                /\ ~containsNonTrueConstantVariables(c.mVariables, equation.mOdeVariables)
            variableBasedConstant ==
                /\ equation.mVariableBasedConstant
                /\ ~containsNonConstantVariables(c.mVariables, equation.mVariables)
                /\ ~containsNonConstantVariables(c.mVariables, equation.mOdeVariables)
            unknownVariable(at) == ~knownVariable(c.mVariables[at])
            unknownOdeVariable(at) == ~knownOdeVariable(c.mVariables[at])
            tracked == [equation EXCEPT
                          !.mTrulyConstant = trulyConstant,
                          !.mVariableBasedConstant = variableBasedConstant,
                          !.mVariables = SelectSeq(@, unknownVariable),
                          !.mOdeVariables = SelectSeq(@, unknownOdeVariable)]
        IN  IF Len(tracked.mVariables) + Len(tracked.mOdeVariables) # 1
            THEN [c EXCEPT !.mEquations[e] = tracked, !.result = FALSE]
            ELSE
            LET at == OnlyVariable(tracked)
                type == IF c.mVariables[at].mType = "UNKNOWN"
                        THEN ComputedType(tracked)
                        ELSE c.mVariables[at].mType
                typed == [c.mVariables EXCEPT ![at].mType = type]
            IN  IF type \notin IndexedTypes
                THEN [c EXCEPT !.mEquations[e] = tracked, !.mVariables = typed,
                               !.result = FALSE]
                ELSE
                LET stateIndex == IF type = "STATE" THEN PreIncrement(c.stateIndex)
                                  ELSE c.stateIndex
                    variableIndex == IF type = "STATE" THEN c.variableIndex
                                     ELSE PreIncrement(c.variableIndex)
                    equationOrder == PreIncrement(c.equationOrder)
                IN  [c EXCEPT
                       !.mVariables =
                           [typed EXCEPT ![at].mIndex = IF type = "STATE" THEN stateIndex
                                                        ELSE variableIndex,
                                         ![at].mComputed = TRUE],
                       !.mEquations[e] = [tracked EXCEPT !.mType = EquationType(type),
                                                         !.mOrder = equationOrder],
                       !.equationOrder = equationOrder,
                       !.stateIndex = stateIndex,
                       !.variableIndex = variableIndex,
                       !.result = TRUE]

(***************************************************************************)
(* Errors (Logger::addError): the kind and the pieces of the description,  *)
(* in the order the code concatenates them.                                *)
(***************************************************************************)
GeneratorError(description) == [kind |-> "GENERATOR", description |-> description]

InitialisedVoiError(variable, modelName) ==
    GeneratorError(<<"Variable '", variable.name, "' in component '", variable.component,
                     "' of model '", modelName,
                     "' cannot be both a variable of integration and initialised.">>)

TwoVoiError(voi, variable, modelName) ==
    GeneratorError(<<"Variable '", voi.name, "' in component '", voi.component,
                     "' of model '", modelName,
                     "' and variable '", variable.name, "' in component '",
                     variable.component, "' of model '", modelName,
                     "' cannot both be a variable of integration.">>)

OrderError(variable, modelName) ==
    GeneratorError(<<"The differential equation for variable '", variable.name,
                     "' in component '", variable.component,
                     "' of model '", modelName, "' must be of the first order.">>)

InitialisedTwiceError(variable, tracked, modelName) ==
    GeneratorError(<<"Variable '", variable.name, "' in component '", variable.component,
                     "' of model '", modelName,
                     "' and variable '", tracked.name, "' in component '",
                     tracked.component, "' of model '", modelName,
                     "' are equivalent and cannot therefore both be initialised.">>)

VariableTypeError(variable, modelName, errorType) ==
    GeneratorError(<<"Variable '", variable.name, "' in component '", variable.component,
                     "' of model '", modelName, "' ", errorType, ".">>)

\* A comparison of the text of the degree rather than of its value.
IsTextuallyOne(value) == value = "1"

\* convertToDouble(value) != 1.0 for the degree literals of the model.
IsFirstOrder(value) == value \in {"1", "1.0", "1e0", "+1"}

\* A test that takes every bvar variable for the one already found.
isNeverAnotherVariableOfIntegration(variable, voi) == variable # variable

\* processEquationAst: the condition under which a second bvar variable is
\* not the variable of integration already found.
isAnotherVariableOfIntegration(variable, voi) ==
    variable # voi /\ ~hasEquivalentVariable(variable, voi)

(***************************************************************************)
(* Generator::GeneratorImpl::processEquationAst(ast), with the parent, the *)
(* grandparent and the great-grandparent of ast; g holds mVariables,       *)
(* mVariableOfIntegration, the errors and the name of the model.           *)
(***************************************************************************)
RECURSIVE processEquationAst(_, _, _, _, _)
processEquationAst(ast, astParent, astGrandParent, astGreatGrandParent, g) ==
    LET \* the variable of integration and its errors
        isBvarCi == /\ ast.mType = "CI"
                    /\ astParent.mType = "BVAR"
                    /\ astGrandParent.mType = "DIFF"
        afterVoi ==
            IF ~isBvarCi THEN g
            ELSE LET variable == ast.mVariable
                     found == generatorVariable(g.mVariables, variable)
                     made == [found.mVariables EXCEPT
                                 ![found.at] = makeVariableOfIntegration(@)]
                     g1 == [g EXCEPT !.mVariables = made]
                 IN  IF g.mVariableOfIntegration = NoVariable
                     THEN IF variable.initialValue # ""
                          THEN [g1 EXCEPT !.errors =
                                   Append(@, InitialisedVoiError(variable, g.modelName))]
                          ELSE [g1 EXCEPT !.mVariableOfIntegration = variable]
                     ELSE IF isAnotherVariableOfIntegration(variable,
                                                            g.mVariableOfIntegration)
                          THEN [g1 EXCEPT !.errors =
                                   Append(@, TwoVoiError(g.mVariableOfIntegration,
                                                         variable, g.modelName))]
                          ELSE g1
        \* first-order ODEs only
        isDegreeCn == /\ ast.mType = "CN"
                      /\ astParent.mType = "DEGREE"
                      /\ astGrandParent.mType = "BVAR"
                      /\ astGreatGrandParent.mType = "DIFF"
        afterOrder ==
            IF isDegreeCn /\ ~IsFirstOrder(ast.mValue)
            THEN [afterVoi EXCEPT !.errors =
                     Append(@, OrderError(astGreatGrandParent.mRight.mVariable,
                                          g.modelName))]
            ELSE afterVoi
        \* a variable used in an ODE is a state
        isDiffCi == ast.mType = "CI" /\ astParent.mType = "DIFF"
        afterState ==
            IF ~isDiffCi THEN afterOrder
            ELSE LET found == generatorVariable(afterOrder.mVariables, ast.mVariable)
                 IN  [afterOrder EXCEPT !.mVariables =
                         [found.mVariables EXCEPT ![found.at] = makeState(@)]]
        afterLeft ==
            IF IsNull(ast.mLeft) THEN afterState
            ELSE processEquationAst(ast.mLeft, ast, astParent, astGrandParent, afterState)
    IN  IF IsNull(ast.mRight) THEN afterLeft
        ELSE processEquationAst(ast.mRight, ast, astParent, astGrandParent, afterLeft)

(***************************************************************************)
(* Generator::GeneratorImpl::processComponent(component), without its      *)
(* recursion into the encapsulated components: the driver keeps them on a  *)
(* stack.                                                                  *)
(***************************************************************************)
\* The loop over the children of the math element.
RECURSIVE processMath(_, _, _)
processMath(component, k, g) ==
    IF k > Len(component.math) THEN g
    ELSE LET built == processEquationNode(component.math[k], XMath(component.math),
                                          component, g.mVariables)
         IN  processMath(component, k + 1,
                         [g EXCEPT !.mVariables = built.mVariables,
                                   !.mEquations = Append(@, built.equation)])

\* The loop over the variables without the test that the variable visited is
\* not the one already held by its record.
RECURSIVE processVariablesWithoutIdentityTest(_, _, _)
processVariablesWithoutIdentityTest(component, k, g) ==
    IF k > Len(component.variables) THEN g
    ELSE LET variable == component.variables[k]
             found == generatorVariable(g.mVariables, variable)
             tracked == found.mVariables[found.at].mVariable
             g1 == [g EXCEPT !.mVariables = found.mVariables]
             g2 == IF variable.initialValue # "" /\ tracked.initialValue = ""
                   THEN [g1 EXCEPT !.mVariables[found.at] = setVariable(@, variable)]
                   ELSE IF /\ variable.initialValue # ""
                           /\ tracked.initialValue # ""
                        THEN [g1 EXCEPT !.errors =
                                 Append(@, InitialisedTwiceError(variable, tracked,
                                                                 g.modelName))]
                        ELSE g1
         IN  processVariablesWithoutIdentityTest(component, k + 1, g2)

\* The loop over the variables of the component.
RECURSIVE processVariables(_, _, _)
processVariables(component, k, g) ==
    IF k > Len(component.variables) THEN g
    ELSE LET variable == component.variables[k]
             found == generatorVariable(g.mVariables, variable)
             tracked == found.mVariables[found.at].mVariable
             g1 == [g EXCEPT !.mVariables = found.mVariables]
             g2 == IF variable.initialValue # "" /\ tracked.initialValue = ""
                   THEN [g1 EXCEPT !.mVariables[found.at] = setVariable(@, variable)]
                   ELSE IF /\ variable # tracked
                           /\ variable.initialValue # ""
                           /\ tracked.initialValue # ""
                        THEN [g1 EXCEPT !.errors =
                                 Append(@, InitialisedTwiceError(variable, tracked,
                                                                 g.modelName))]
                        ELSE g1
         IN  processVariables(component, k + 1, g2)

processComponent(component, g) ==
    processVariables(component, 1, processMath(component, 1, g))

(***************************************************************************)
(* The Generator object and the frame of a processModel call.              *)
(***************************************************************************)
Model(name, components) == [name |-> name, components |-> components]
NoModel == Model("", <<>>)

\* The strings of the default GeneratorProfile that the models below use: the
\* value of GeneratorImpl::mProfile until setProfile replaces it.
Profile ==
    [eqString |-> " = ", eqEqString |-> " == ", neqString |-> " != ",
     ltString |-> " < ", leqString |-> " <= ", gtString |-> " > ", geqString |-> " >= ",
     plusString |-> "+", minusString |-> "-",
     timesString |-> "*", divideString |-> "/",
     andString |-> " && ", orString |-> " || ", xorString |-> "^",
     hasXorOperator |-> TRUE, hasPowerOperator |-> FALSE,
     hasConditionalOperator |-> TRUE,
     conditionalOperatorIfString |-> <<"(", "#cond", ")?", "#if">>,
     conditionalOperatorElseString |-> <<":", "#else">>,
     nanString |-> "sqrt(-1.0)",
     powerString |-> "pow", squareString |-> "sqr", squareRootString |-> "sqrt",
     minString |-> "min", maxString |-> "max", gcdString |-> "gcd", lcmString |-> "lcm",
     commandSeparatorString |-> ";",
     variableOfIntegrationString |-> "voi", statesArrayString |-> "states",
     ratesArrayString |-> "rates", variablesArrayString |-> "variables"]

\* Generator::Generator(): the fields of GeneratorImpl and the error list of
\* the Logger base class.
NewGenerator ==
    [mHasModel |-> FALSE, mVariableOfIntegration |-> NoVariable,
     mVariables |-> <<>>, mEquations |-> <<>>, mProfile |-> Profile,
     errors |-> <<>>]

\* Generator::setProfile
setProfile(generator, profile) == [generator EXCEPT !.mProfile = profile]

\* The locals of processModel: the point reached (pc), the argument, the
\* components still to walk, the loop cursor, the counters handed to check()
\* and the number of passes of the fixpoint loop completed so far.
IdleCall ==
    [pc |-> "idle", model |-> NoModel, stack |-> <<>>, i |-> 0,
     equationOrder |-> 0, stateIndex |-> MAX_SIZE_T, variableIndex |-> MAX_SIZE_T,
     relevantCheck |-> FALSE, passes |-> 0]

\* Logger::errorCount
errorCount(generator) == Len(generator.errors)

\* The part of a state s = [generator, call] that the walks above work on.
Walked(s) ==
    [mVariables |-> s.generator.mVariables, mEquations |-> s.generator.mEquations,
     mVariableOfIntegration |-> s.generator.mVariableOfIntegration,
     errors |-> s.generator.errors, modelName |-> s.call.model.name]
WithWalked(generator, g) ==
    [generator EXCEPT !.mVariables = g.mVariables, !.mEquations = g.mEquations,
                      !.mVariableOfIntegration = g.mVariableOfIntegration,
                      !.errors = g.errors]

\* The loop over the equations' ASTs entered whatever the errors of the walk.
AfterComponentsWhateverTheErrors(s) ==
    IF Len(s.generator.mEquations) > 0
    THEN [s EXCEPT !.call.pc = "equationAsts", !.call.i = 1]
    ELSE [s EXCEPT !.call.pc = "constants"]

\* processModel, after the loop over the components: the loop over the
\* equations' ASTs is entered only without errors.
AfterComponents(s) ==
    IF errorCount(s.generator) = 0 /\ Len(s.generator.mEquations) > 0
    THEN [s EXCEPT !.call.pc = "equationAsts", !.call.i = 1]
    ELSE [s EXCEPT !.call.pc = "constants"]

\* A reset that keeps the registry of the previous call.
beginProcessModelKeepingTheRegistry(generator, model) ==
    LET reset == [generator EXCEPT !.mHasModel = TRUE,
                                   !.mVariableOfIntegration = NoVariable,
                                   !.mEquations = <<>>]
        call == [IdleCall EXCEPT !.pc = "components", !.model = model,
                                 !.stack = model.components]
        s == [generator |-> reset, call |-> call]
    IN  IF call.stack = <<>> THEN AfterComponents(s) ELSE s

\* processModel up to its loop over the components: the reset.
beginProcessModel(generator, model) ==
    LET reset == [generator EXCEPT !.mHasModel = TRUE,
                                   !.mVariableOfIntegration = NoVariable,
                                   !.mVariables = <<>>,
                                   !.mEquations = <<>>]
        call == [IdleCall EXCEPT !.pc = "components", !.model = model,
                                 !.stack = model.components]
        s == [generator |-> reset, call |-> call]
    IN  IF call.stack = <<>> THEN AfterComponents(s) ELSE s

\* One processComponent call of the depth-first walk.
componentStep(s) ==
    LET component == Head(s.call.stack)
        g == processComponent(component, Walked(s))
        s1 == [s EXCEPT !.generator = WithWalked(@, g),
                        !.call.stack = component.components \o Tail(@)]
    IN  IF s1.call.stack = <<>> THEN AfterComponents(s1) ELSE s1

\* One iteration of the loop over the equations' ASTs.
equationAstStep(s) ==
    LET ast == s.generator.mEquations[s.call.i].mAst
        g == processEquationAst(ast, AstNull, AstNull, AstNull, Walked(s))
        s1 == [s EXCEPT !.generator = WithWalked(@, g)]
    IN  IF s.call.i = Len(s.generator.mEquations)
        THEN [s1 EXCEPT !.call.pc = "constants"]
        ELSE [s1 EXCEPT !.call.i = @ + 1]

\* The loop that gives the constants their index.
RECURSIVE indexConstants(_, _, _)
indexConstants(mVariables, k, variableIndex) ==
    IF k > Len(mVariables) THEN [mVariables |-> mVariables, variableIndex |-> variableIndex]
    ELSE IF mVariables[k].mType = "CONSTANT"
         THEN indexConstants([mVariables EXCEPT ![k].mIndex = PreIncrement(variableIndex)],
                             k + 1, PreIncrement(variableIndex))
         ELSE indexConstants(mVariables, k + 1, variableIndex)

\* The same step, handing the fixpoint loop a variable counter that has
\* forgotten the constants.
constantsStepForgettingTheConstants(s) ==
    LET indexed == indexConstants(s.generator.mVariables, 1, MAX_SIZE_T)
        s1 == [s EXCEPT !.generator.mVariables = indexed.mVariables,
                        !.call.variableIndex = MAX_SIZE_T,
                        !.call.equationOrder = 0,
                        !.call.stateIndex = MAX_SIZE_T]
    IN  IF errorCount(s.generator) = 0
        THEN [s1 EXCEPT !.call.pc = "check", !.call.i = 1, !.call.relevantCheck = FALSE]
        ELSE [s1 EXCEPT !.call.pc = "validate"]

\* processModel from "size_t variableIndex = MAX_SIZE_T" to the fixpoint loop.
constantsStep(s) ==
    LET indexed == indexConstants(s.generator.mVariables, 1, MAX_SIZE_T)
        s1 == [s EXCEPT !.generator.mVariables = indexed.mVariables,
                        !.call.variableIndex = indexed.variableIndex,
                        !.call.equationOrder = 0,
                        !.call.stateIndex = MAX_SIZE_T]
    IN  IF errorCount(s.generator) = 0
        THEN [s1 EXCEPT !.call.pc = "check", !.call.i = 1, !.call.relevantCheck = FALSE]
        ELSE [s1 EXCEPT !.call.pc = "validate"]

\* One check() call of a pass of the fixpoint loop.
checkStep(s) ==
    LET c == check([mVariables |-> s.generator.mVariables,
                    mEquations |-> s.generator.mEquations,
                    equationOrder |-> s.call.equationOrder,
                    stateIndex |-> s.call.stateIndex,
                    variableIndex |-> s.call.variableIndex,
                    result |-> FALSE], s.call.i)
    IN  [s EXCEPT !.generator.mVariables = c.mVariables,
                  !.generator.mEquations = c.mEquations,
                  !.call.equationOrder = c.equationOrder,
                  !.call.stateIndex = c.stateIndex,
                  !.call.variableIndex = c.variableIndex,
                  !.call.relevantCheck = c.result \/ @,
                  !.call.i = @ + 1]

\* An end of pass that goes on for as long as an equation has no order.
endOfPassStepUntilAllOrdered(s) ==
    IF \A e \in DOMAIN s.generator.mEquations : s.generator.mEquations[e].mOrder # 0
    THEN [s EXCEPT !.call.pc = "validate", !.call.passes = @ + 1]
    ELSE [s EXCEPT !.call.i = 1, !.call.relevantCheck = FALSE, !.call.passes = @ + 1]

\* The end of a pass: "if (!relevantCheck) break;".
endOfPassStep(s) ==
    IF ~s.call.relevantCheck
    THEN [s EXCEPT !.call.pc = "validate", !.call.passes = @ + 1]
    ELSE [s EXCEPT !.call.i = 1, !.call.relevantCheck = FALSE, !.call.passes = @ + 1]

\* The final loop without the case of the variables that should be states.
RECURSIVE validateVariablesOfUnknownType(_, _, _, _)
validateVariablesOfUnknownType(mVariables, k, modelName, errors) ==
    IF k > Len(mVariables) THEN errors
    ELSE LET errorType ==
                 IF mVariables[k].mType = "UNKNOWN" THEN "is of unknown type"
                 ELSE ""
         IN  validateVariablesOfUnknownType(mVariables, k + 1, modelName,
                 IF errorType # ""
                 THEN Append(errors, VariableTypeError(mVariables[k].mVariable,
                                                       modelName, errorType))
                 ELSE errors)

\* The error, if any, that the final loop reports for a registry record.
RECURSIVE validateVariables(_, _, _, _)
validateVariables(mVariables, k, modelName, errors) ==
    IF k > Len(mVariables) THEN errors
    ELSE LET errorType ==
                 IF mVariables[k].mType = "UNKNOWN" THEN "is of unknown type"
                 ELSE IF mVariables[k].mType = "SHOULD_BE_STATE"
                      THEN "is used in an ODE, but it is not initialised"
                 ELSE ""
         IN  validateVariables(mVariables, k + 1, modelName,
                 IF errorType # ""
                 THEN Append(errors, VariableTypeError(mVariables[k].mVariable,
                                                       modelName, errorType))
                 ELSE errors)

\* A final loop that runs whatever the number of errors.
validateStepWhateverTheErrors(s) ==
    [s EXCEPT !.call.pc = "done",
              !.generator.errors =
                  validateVariables(s.generator.mVariables, 1, s.call.model.name, @)]

\* processModel, "Make sure that all our variables are valid".
validateStep(s) ==
    LET s1 == [s EXCEPT !.call.pc = "done"]
    IN  IF errorCount(s.generator) = 0
        THEN [s1 EXCEPT !.generator.errors =
                 validateVariables(s.generator.mVariables, 1, s.call.model.name, @)]
        ELSE s1

\* The step processModel takes next from s.
Step(s) ==
    CASE s.call.pc = "components" -> componentStep(s)
      [] s.call.pc = "equationAsts" -> equationAstStep(s)
      [] s.call.pc = "constants" -> constantsStep(s)
      [] s.call.pc = "check" /\ s.call.i <= Len(s.generator.mEquations) -> checkStep(s)
      [] s.call.pc = "check" /\ s.call.i > Len(s.generator.mEquations) ->
           endOfPassStep(s)
      [] s.call.pc = "validate" -> validateStep(s)
      [] OTHER -> s

\* A whole call of processModel(model) on the given Generator.
RECURSIVE RunToReturn(_)
RunToReturn(s) == IF s.call.pc = "done" THEN s ELSE RunToReturn(Step(s))
processModel(generator, model) == RunToReturn(beginProcessModel(generator, model))

(***************************************************************************)
(* The queries of Generator.  Text is a sequence of the pieces the code    *)
(* concatenates.                                                           *)
(***************************************************************************)
\* Generator::GeneratorImpl::hasValidModel
hasValidModel(generator) == generator.mHasModel /\ errorCount(generator) = 0

\* Generator::modelType
modelType(generator) ==
    IF ~hasValidModel(generator) THEN "UNKNOWN"
    ELSE IF generator.mVariableOfIntegration # NoVariable THEN "ODE"
    ELSE "ALGEBRAIC"

\* The registry positions whose record has one of the given types.
OfTypes(generator, types) ==
    {k \in DOMAIN generator.mVariables : generator.mVariables[k].mType \in types}

\* Generator::stateCount
stateCount(generator) ==
    IF ~hasValidModel(generator) THEN 0
    ELSE Cardinality(OfTypes(generator, {"STATE"}))

\* The types that Generator::variableCount counts.
VariableTypes ==
    {"ALGEBRAIC", "CONSTANT", "COMPUTED_TRUE_CONSTANT", "COMPUTED_VARIABLE_BASED_CONSTANT"}

\* Generator::variableCount
variableCount(generator) ==
    IF ~hasValidModel(generator) THEN 0
    ELSE Cardinality(OfTypes(generator, VariableTypes))

\* A naming that takes the states array for a state wherever it stands.
generateVariableNameOutsideDifferentials(generator, variable, astParent) ==
    LET found == generatorVariable(generator.mVariables, variable)
        record == found.mVariables[found.at]
        arrayName == IF record.mType = "STATE"
                     THEN generator.mProfile.statesArrayString
                     ELSE generator.mProfile.variablesArrayString
    IN  IF record.mType = "VARIABLE_OF_INTEGRATION"
        THEN <<generator.mProfile.variableOfIntegrationString>>
        ELSE <<arrayName, "[", ToString(record.mIndex), "]">>

\* Generator::GeneratorImpl::generateVariableName(variable, ast); astParent
\* is ast->mParent, or AstNull when the call passes no ast.
generateVariableName(generator, variable, astParent) ==
    LET found == generatorVariable(generator.mVariables, variable)
        record == found.mVariables[found.at]
        arrayName == IF record.mType = "STATE"
                     THEN (IF astParent.mType = "DIFF" THEN generator.mProfile.ratesArrayString
                           ELSE generator.mProfile.statesArrayString)
                     ELSE generator.mProfile.variablesArrayString
    IN  IF record.mType = "VARIABLE_OF_INTEGRATION"
        THEN <<generator.mProfile.variableOfIntegrationString>>
        ELSE <<arrayName, "[", ToString(record.mIndex), "]">>

\* A test that knows the two equality operators only.
isEqualityOperator(ast) == ast.mType \in {"EQEQ", "NEQ"}

isRelationalOperator(ast) == ast.mType \in {"EQEQ", "NEQ", "LT", "LEQ", "GT", "GEQ"}
isPlusOperator(ast) == ast.mType = "PLUS"
\* A test that knows the binary minus only.
isBinaryMinusOperator(ast) == ast.mType = "MINUS" /\ ~IsNull(Right(ast))

isMinusOperator(ast) == ast.mType = "MINUS"
isTimesOperator(ast) == ast.mType = "TIMES"
isDivideOperator(ast) == ast.mType = "DIVIDE"
isPowerOperator(ast) == ast.mType = "POWER"
isRootOperator(ast) == ast.mType = "ROOT"
isAndOperator(ast) == ast.mType = "AND"
isOrOperator(ast) == ast.mType = "OR"
isXorOperator(ast) == ast.mType = "XOR"
isLogicalOrBitwiseOperator(ast) == ast.mType \in {"AND", "OR", "XOR"}
isPiecewiseStatement(ast) == ast.mType = "PIECEWISE"

Parenthesized(code) == <<"(">> \o code \o <<")">>

\* Generator::GeneratorImpl::generateOperatorCode, given the code of the two
\* branches: the rules for the arithmetic and the logical operators.
generateOperatorCode(generator, op, ast, leftCode, rightCode) ==
    LET lowLeft == \/ isRelationalOperator(ast.mLeft)
                   \/ isLogicalOrBitwiseOperator(ast.mLeft)
                   \/ isPiecewiseStatement(ast.mLeft)
        lowRight == \/ isRelationalOperator(ast.mRight)
                    \/ isLogicalOrBitwiseOperator(ast.mRight)
                    \/ isPiecewiseStatement(ast.mRight)
        binaryLeft == ~IsNull(Right(ast.mLeft))
        binaryRight == ~IsNull(Right(ast.mRight))
        wrap(code, needed) == IF needed THEN Parenthesized(code) ELSE code
        \* the test that the rules of and, or and xor share, for one branch
        \* and the two other logical operators
        beside(branch, isOther1, isOther2) ==
            \/ isRelationalOperator(branch) \/ isOther1 \/ isOther2
            \/ isPiecewiseStatement(branch)
            \/ /\ isPlusOperator(branch) \/ isMinusOperator(branch)
               /\ ~IsNull(Right(branch))
            \/ /\ isPowerOperator(branch) \/ isRootOperator(branch)
               /\ generator.mProfile.hasPowerOperator
    IN  CASE isPlusOperator(ast) ->
               wrap(leftCode, lowLeft) \o <<op>> \o wrap(rightCode, lowRight)
          [] isMinusOperator(ast) ->
               wrap(leftCode, lowLeft) \o <<op>>
               \o wrap(rightCode, \/ lowRight
                                  \/ isMinusOperator(ast.mRight)
                                  \/ isPlusOperator(ast.mRight) /\ binaryRight)
          [] isTimesOperator(ast) ->
               wrap(leftCode, \/ lowLeft
                              \/ /\ isPlusOperator(ast.mLeft) \/ isMinusOperator(ast.mLeft)
                                 /\ binaryLeft)
               \o <<op>>
               \o wrap(rightCode, \/ lowRight
                                  \/ /\ isPlusOperator(ast.mRight) \/ isMinusOperator(ast.mRight)
                                     /\ binaryRight)
          [] isDivideOperator(ast) ->
               wrap(leftCode, \/ lowLeft
                              \/ /\ isPlusOperator(ast.mLeft) \/ isMinusOperator(ast.mLeft)
                                 /\ binaryLeft)
               \o <<op>>
               \o wrap(rightCode, \/ lowRight
                                  \/ isTimesOperator(ast.mRight)
                                  \/ isDivideOperator(ast.mRight)
                                  \/ /\ isPlusOperator(ast.mRight) \/ isMinusOperator(ast.mRight)
                                     /\ binaryRight)
          [] isAndOperator(ast) ->
               wrap(leftCode, beside(ast.mLeft, isOrOperator(ast.mLeft),
                                     isXorOperator(ast.mLeft)))
               \o <<op>>
               \o wrap(rightCode, beside(ast.mRight, isOrOperator(ast.mRight),
                                         isXorOperator(ast.mRight)))
          [] isOrOperator(ast) ->
               wrap(leftCode, beside(ast.mLeft, isAndOperator(ast.mLeft),
                                     isXorOperator(ast.mLeft)))
               \o <<op>>
               \o wrap(rightCode, beside(ast.mRight, isAndOperator(ast.mRight),
                                         isXorOperator(ast.mRight)))
          [] isXorOperator(ast) ->
               wrap(leftCode, beside(ast.mLeft, isAndOperator(ast.mLeft),
                                     isOrOperator(ast.mLeft)))
               \o <<op>>
               \o wrap(rightCode, beside(ast.mRight, isAndOperator(ast.mRight),
                                         isOrOperator(ast.mRight)))
          [] isPowerOperator(ast) ->
               wrap(leftCode, \/ lowLeft
                              \/ isMinusOperator(ast.mLeft)
                              \/ isTimesOperator(ast.mLeft)
                              \/ isDivideOperator(ast.mLeft)
                              \/ isPlusOperator(ast.mLeft) /\ binaryLeft)
               \o <<op>>
               \o wrap(rightCode, \/ isRelationalOperator(ast.mRight)
                                  \/ isMinusOperator(ast.mLeft)
                                  \/ isTimesOperator(ast.mRight)
                                  \/ isDivideOperator(ast.mRight)
                                  \/ isPowerOperator(ast.mRight)
                                  \/ isRootOperator(ast.mRight)
                                  \/ isLogicalOrBitwiseOperator(ast.mRight)
                                  \/ isPiecewiseStatement(ast.mRight)
                                  \/ isPlusOperator(ast.mRight) /\ binaryRight)
          [] isRootOperator(ast) ->
               wrap(rightCode, \/ lowRight
                               \/ isMinusOperator(ast.mRight)
                               \/ isTimesOperator(ast.mRight)
                               \/ isDivideOperator(ast.mRight)
                               \/ isPlusOperator(ast.mRight) /\ binaryRight)
               \o <<op, "(1.0/">>
               \o wrap(leftCode, \/ lowLeft
                                 \/ isMinusOperator(ast.mLeft)
                                 \/ isTimesOperator(ast.mLeft)
                                 \/ isDivideOperator(ast.mLeft)
                                 \/ isPowerOperator(ast.mLeft)
                                 \/ isRootOperator(ast.mLeft)
                                 \/ isPlusOperator(ast.mLeft) /\ binaryLeft)
               \o <<")">>
          [] OTHER -> leftCode \o <<op>> \o rightCode

\* Generator::GeneratorImpl::generateMinusUnaryCode, given the code of the
\* left branch.
generateMinusUnaryCode(generator, ast, leftCode) ==
    <<generator.mProfile.minusString>>
    \o (IF \/ isRelationalOperator(ast.mLeft)
           \/ isPlusOperator(ast.mLeft)
           \/ isMinusOperator(ast.mLeft)
           \/ isLogicalOrBitwiseOperator(ast.mLeft)
           \/ isPiecewiseStatement(ast.mLeft)
        THEN Parenthesized(leftCode)
        ELSE leftCode)

\* replace(): the template with the code in place of each piece `what`.
RECURSIVE replace(_, _, _)
replace(template, what, code) ==
    IF template = <<>> THEN <<>>
    ELSE (IF Head(template) = what THEN code ELSE <<Head(template)>>)
         \o replace(Tail(template), what, code)

\* Generator::GeneratorImpl::generatePiecewiseIfCode
generatePiecewiseIfCode(generator, condition, value) ==
    replace(replace(generator.mProfile.conditionalOperatorIfString, "#cond", condition),
            "#if", value)

\* Generator::GeneratorImpl::generatePiecewiseElseCode
generatePiecewiseElseCode(generator, value) ==
    replace(generator.mProfile.conditionalOperatorElseString, "#else", value)

\* convertToDouble(code) is one of the given values: the literals that the
\* models below use for the value.
HasValue(code, literals) == Len(code) = 1 /\ code[1] \in literals

\* The call of a function of the profile on the given arguments.
FunctionCall(name, first, second) ==
    <<name, "(">> \o first \o <<", ">> \o second \o <<")">>

\* Generator::GeneratorImpl::generateCode(ast, parentAst), for the node types
\* of the models below; astParent is ast->mParent, and parentAst is AstNull
\* when the call leaves the second argument out.
RECURSIVE generateCode(_, _, _, _)
generateCode(generator, ast, astParent, parentAst) ==
    LET mProfile == generator.mProfile
        left == generateCode(generator, ast.mLeft, ast, AstNull)
        right == generateCode(generator, ast.mRight, ast, AstNull)
        operator(op) == generateOperatorCode(generator, op, ast, left, right)
        \* min, max, gcd and lcm hand themselves to the two branches
        arguments == generateCode(generator, ast.mLeft, ast, ast) \o <<", ">>
                     \o generateCode(generator, ast.mRight, ast, ast)
        function(name) == IF IsNull(parentAst)
                          THEN <<name, "(">> \o arguments \o <<")">>
                          ELSE arguments
    IN  CASE ast.mType = "EQ" -> operator(mProfile.eqString)
          [] ast.mType = "EQEQ" -> operator(mProfile.eqEqString)
          [] ast.mType = "NEQ" -> operator(mProfile.neqString)
          [] ast.mType = "LT" -> operator(mProfile.ltString)
          [] ast.mType = "LEQ" -> operator(mProfile.leqString)
          [] ast.mType = "GT" -> operator(mProfile.gtString)
          [] ast.mType = "GEQ" -> operator(mProfile.geqString)
          [] ast.mType = "PLUS" ->
               IF ~IsNull(ast.mRight) THEN operator(mProfile.plusString) ELSE left
          [] ast.mType = "MINUS" ->
               IF ~IsNull(ast.mRight) THEN operator(mProfile.minusString)
               ELSE generateMinusUnaryCode(generator, ast, left)
          [] ast.mType = "TIMES" -> operator(mProfile.timesString)
          [] ast.mType = "DIVIDE" -> operator(mProfile.divideString)
          [] ast.mType = "POWER" ->
               IF HasValue(right, {"0.5"})
               THEN <<mProfile.squareRootString, "(">> \o left \o <<")">>
               ELSE IF HasValue(right, {"2", "2.0"})
               THEN <<mProfile.squareString, "(">> \o left \o <<")">>
               ELSE IF mProfile.hasPowerOperator THEN operator(mProfile.powerString)
               ELSE FunctionCall(mProfile.powerString, left, right)
          [] ast.mType = "ROOT" ->
               IF ~IsNull(ast.mRight)
               THEN IF HasValue(left, {"2", "2.0"})
                    THEN <<mProfile.squareRootString, "(">> \o right \o <<")">>
                    ELSE IF mProfile.hasPowerOperator
                    THEN operator(mProfile.powerString)
                    ELSE FunctionCall(mProfile.powerString, right, <<"1.0/">> \o left)
               ELSE <<mProfile.squareRootString, "(">> \o left \o <<")">>
          [] ast.mType = "AND" -> operator(mProfile.andString)
          [] ast.mType = "OR" -> operator(mProfile.orString)
          [] ast.mType = "XOR" ->
               IF mProfile.hasXorOperator THEN operator(mProfile.xorString)
               ELSE FunctionCall(mProfile.xorString, left, right)
          [] ast.mType = "DIFF" -> right
          [] ast.mType = "MIN" -> function(mProfile.minString)
          [] ast.mType = "MAX" -> function(mProfile.maxString)
          [] ast.mType = "GCD" -> function(mProfile.gcdString)
          [] ast.mType = "LCM" -> function(mProfile.lcmString)
          [] ast.mType = "PIECEWISE" ->
               IF ~IsNull(ast.mRight)
               THEN IF ast.mRight.mType = "PIECE"
                    THEN left \o generatePiecewiseElseCode(generator,
                                     right \o generatePiecewiseElseCode(generator,
                                                  <<mProfile.nanString>>))
                    ELSE left \o generatePiecewiseElseCode(generator, right)
               ELSE left \o generatePiecewiseElseCode(generator, <<mProfile.nanString>>)
          [] ast.mType = "PIECE" -> generatePiecewiseIfCode(generator, right, left)
          [] ast.mType = "OTHERWISE" -> left
          [] ast.mType = "CN" -> <<ast.mValue>>
          [] ast.mType = "CI" -> generateVariableName(generator, ast.mVariable, astParent)
          [] ast.mType \in {"DEGREE", "LOGBASE", "BVAR"} -> left
          [] OTHER -> <<>>

\* The statement that the four block functions emit for an equation.
Statement(generator, equation) ==
    generateCode(generator, equation.mAst, AstNull, AstNull)
    \o <<generator.mProfile.commandSeparatorString, "\n">>

\* The equations of the given type and those without a type.
RECURSIVE EquationsOfTypeOrNone(_, _, _)
EquationsOfTypeOrNone(mEquations, type, k) ==
    IF k > Len(mEquations) THEN <<>>
    ELSE (IF mEquations[k].mType \in {type, "UNKNOWN"} THEN <<k>> ELSE <<>>)
         \o EquationsOfTypeOrNone(mEquations, type, k + 1)

\* The equations of the given type, in the order the block functions visit
\* them: a sequence of positions in mEquations.
RECURSIVE EquationsOfType(_, _, _)
EquationsOfType(mEquations, type, k) ==
    IF k > Len(mEquations) THEN <<>>
    ELSE (IF mEquations[k].mType = type THEN <<k>> ELSE <<>>)
         \o EquationsOfType(mEquations, type, k + 1)

\* The concatenated statements of the equations at the given positions.
RECURSIVE Statements(_, _, _)
Statements(generator, positions, k) ==
    IF k > Len(positions) THEN <<>>
    ELSE Statement(generator, generator.mEquations[positions[k]])
         \o Statements(generator, positions, k + 1)

\* The first loop of initializeVariables.
RECURSIVE InitialValues(_, _)
InitialValues(generator, k) ==
    IF k > Len(generator.mVariables) THEN <<>>
    ELSE (IF generator.mVariables[k].mType \in {"STATE", "CONSTANT"}
          THEN generateVariableName(generator, generator.mVariables[k].mVariable, AstNull)
               \o <<" = ", generator.mVariables[k].mVariable.initialValue,
                    generator.mProfile.commandSeparatorString, "\n">>
          ELSE <<>>)
         \o InitialValues(generator, k + 1)

\* An initializer that ends its text with a line break of its own.
initializeVariablesWithFinalLineBreak(generator) ==
    IF errorCount(generator) # 0 THEN <<>>
    ELSE InitialValues(generator, 1)
         \o Statements(generator,
                       EquationsOfType(generator.mEquations, "TRUE_CONSTANT", 1), 1)
         \o <<"\n">>

\* Generator::initializeVariables
initializeVariables(generator) ==
    IF errorCount(generator) # 0 THEN <<>>
    ELSE InitialValues(generator, 1)
         \o Statements(generator,
                       EquationsOfType(generator.mEquations, "TRUE_CONSTANT", 1), 1)

\* A block function without the test of the error count.
computeEquationsWhateverTheErrors(generator, type) ==
    Statements(generator, EquationsOfType(generator.mEquations, type, 1), 1)

\* The body shared by computeConstantEquations, computeRateEquations and
\* computeAlgebraicEquations.
computeEquations(generator, type) ==
    IF errorCount(generator) # 0 THEN <<>>
    ELSE Statements(generator, EquationsOfType(generator.mEquations, type, 1), 1)

\* Generator::computeConstantEquations
computeConstantEquations(generator) == computeEquations(generator, "VARIABLE_BASED_CONSTANT")
\* Generator::computeRateEquations
computeRateEquations(generator) == computeEquations(generator, "RATE")
\* Generator::computeAlgebraicEquations
computeAlgebraicEquations(generator) == computeEquations(generator, "ALGEBRAIC")

(***************************************************************************)
(* The models given to processModel.  The top-level component "main" has   *)
(* as math any sequence of at most MaxEqs equations of MainEquations and   *)
(* declares, of t, x and y, the variables its math refers to and those     *)
(* that carry an initial value.  It encapsulates a component "sub" when    *)
(* sub has something to declare: its math is empty or one equation of      *)
(* SubEquations; it declares t when its math uses t, when t carries an     *)
(* initial value or when t is equivalent to the t of main, and it declares *)
(* an initialised x when it has math.                                      *)
(***************************************************************************)
MainEquations ==
    {XEq(XCi("x"), XCn("1.0")),                          \* x = 1.0
     XEq(XCi("y"), XCi("x")),                            \* y = x
     XEq(XDiff("x", "t"), XCn("1.0")),                   \* dx/dt = 1.0
     XEq(XDiff("x", "t"), XPlus2(XCi("y"), XCi("x"))),   \* dx/dt = y+x
     XEq(XDiff("y", "t"), XDiff("x", "t")),              \* dy/dt = dx/dt
     XEq(XDiffDegree("x", "t", "2"), XCn("1.0")),        \* d2x/dt2 = 1.0
     XEq(XDiff("x", "y"), XCn("1.0"))}                   \* dx/dy = 1.0

SubEquations ==
    {XEq(XDiffDegree("x", "t", "1"), XCn("5.0"))}        \* dx/dt = 5.0, degree 1

\* The declared variables that may or may not carry an initial value, and
\* the literal of each name.
Initialisable == {<<"main", "t">>, <<"main", "x">>, <<"main", "y">>, <<"sub", "t">>}
Literal(name) == IF name = "t" THEN "0.0" ELSE IF name = "x" THEN "3.0" ELSE "7.0"

\* The names of the ci elements of a markup tree.
RECURSIVE CiNames(_)
CiNames(node) ==
    IF node.el = "ci" THEN {node.text}
    ELSE UNION {CiNames(node.ch[k]) : k \in DOMAIN node.ch}

\* The variable `name` of `component`, initialised if in `initialised`, and
\* equivalent to its namesake of the other component if in `linked`.
Declared(component, name, initialised, linked) ==
    Variable(component, name,
             IF <<component, name>> \in initialised THEN Literal(name) ELSE "",
             IF name \in linked THEN name ELSE "")

\* Component `name` with the given math and components, declaring those of
\* `names` that its math uses or that are initialised.
MakeComponent(name, names, math, initialised, linked, components) ==
    LET used == UNION {CiNames(math[k]) : k \in DOMAIN math}
        declares(n) == \/ n \in used
                       \/ <<name, n>> \in initialised
                       \/ name # "main" /\ n \in linked
        declaration(n) == Declared(name, n, initialised, linked)
    IN  Component(name, SelectSeq([k \in DOMAIN names |-> declaration(names[k])],
                                  LAMBDA variable : declares(variable.name)),
                  math, components)

MakeModel(mainMath, subMath, initialised, linked) ==
    LET withSubX == IF subMath # <<>> THEN initialised \cup {<<"sub", "x">>}
                    ELSE initialised
        sub == MakeComponent("sub", <<"t", "x">>, subMath, withSubX, linked, <<>>)
        subs == IF sub.variables = <<>> THEN <<>> ELSE <<sub>>
    IN  Model("model",
              <<MakeComponent("main", <<"t", "x", "y">>, mainMath, withSubX, linked,
                              subs)>>)

\* A model without components.
EmptyModel == Model("emptyModel", <<>>)

Models ==
    {EmptyModel}
    \cup {MakeModel(mainMath, subMath, initialised, linked) :
            mainMath \in SeqsUpTo(MainEquations, MaxEqs),
            subMath \in SeqsUpTo(SubEquations, 1),
            initialised \in SUBSET Initialisable,
            linked \in SUBSET {"t"}}

(***************************************************************************)
(* The state machine: one Generator, the processModel call in progress,    *)
(* and the record of the calls that returned.                              *)
(***************************************************************************)
VARIABLES generator, call, history
vars == <<generator, call, history>>

Here == [generator |-> generator, call |-> call]
Becomes(s) == generator' = s.generator /\ call' = s.call

\* What a caller can observe of a Generator after a call.
Text(g) ==
    [initializeVariables |-> initializeVariables(g),
     computeConstantEquations |-> computeConstantEquations(g),
     computeRateEquations |-> computeRateEquations(g),
     computeAlgebraicEquations |-> computeAlgebraicEquations(g)]
Observed(g) ==
    [errors |-> g.errors, stateCount |-> stateCount(g),
     variableCount |-> variableCount(g), modelType |-> modelType(g),
     text |-> Text(g)]

Init ==
    /\ generator = NewGenerator
    /\ call = IdleCall
    /\ history = <<>>

\* generator.processModel(model) is called: the reset.
ProcessModel(model) ==
    /\ call.pc \in {"idle", "done"}
    /\ Becomes(beginProcessModel(generator, model))
    /\ history' = IF call.pc = "done"
                  THEN Append(history, [model |-> call.model,
                                        observed |-> Observed(generator)])
                  ELSE history

ProcessComponent ==
    /\ call.pc = "components"
    /\ Becomes(componentStep(Here))
    /\ UNCHANGED history

ProcessEquationAst ==
    /\ call.pc = "equationAsts"
    /\ Becomes(equationAstStep(Here))
    /\ UNCHANGED history

IndexConstants ==
    /\ call.pc = "constants"
    /\ Becomes(constantsStep(Here))
    /\ UNCHANGED history

Check ==
    /\ call.pc = "check"
    /\ call.i <= Len(generator.mEquations)
    /\ Becomes(checkStep(Here))
    /\ UNCHANGED history

EndOfPass ==
    /\ call.pc = "check"
    /\ call.i > Len(generator.mEquations)
    /\ Becomes(endOfPassStep(Here))
    /\ UNCHANGED history

ValidateVariables ==
    /\ call.pc = "validate"
    /\ Becomes(validateStep(Here))
    /\ UNCHANGED history

Run ==
    \/ ProcessComponent
    \/ ProcessEquationAst
    \/ IndexConstants
    \/ Check
    \/ EndOfPass
    \/ ValidateVariables

\* One call of processModel on a new Generator, for every model.
FirstCall ==
    /\ history = <<>>
    /\ call.pc = "idle"
    /\ \E model \in Models : ProcessModel(model)

Next == FirstCall \/ Run

Spec == Init /\ [][Next]_vars

(***************************************************************************)
(* Repeated calls: up to MaxRuns calls of processModel on one Generator,   *)
(* each with any model of RerunModels.                                     *)
(***************************************************************************)
RerunEquations ==
    {XEq(XCi("x"), XCn("1.0")),                          \* x = 1.0
     XEq(XDiff("x", "t"), XCn("1.0"))}                   \* dx/dt = 1.0

RerunModels ==
    {EmptyModel}
    \cup {MakeModel(mainMath, <<>>, initialised, {"t"}) :
            mainMath \in SeqsUpTo(RerunEquations, 1),
            initialised \in SUBSET {<<"main", "t">>, <<"main", "x">>, <<"sub", "t">>}}

\* The number of processModel calls made so far.
Calls == Len(history) + (IF call.pc = "idle" THEN 0 ELSE 1)

AnyCall ==
    /\ call.pc \in {"idle", "done"}
    /\ Calls < MaxRuns
    /\ \E model \in RerunModels : ProcessModel(model)

NextRerun == AnyCall \/ Run

SpecRerun == Init /\ [][NextRerun]_vars

(***************************************************************************)
(* Properties.                                                             *)
(***************************************************************************)
\* processModel has returned.
Done == call.pc = "done"
\* processModel has returned and the Generator holds no error.
Succeeded == Done /\ errorCount(generator) = 0

\* C1: a call of processModel on a Generator that has processed a model
\* before leaves it with the errors, counts, model type and blocks that the
\* same call leaves a newly constructed Generator with.
C1_RepeatedRunLikeFresh ==
    (Done /\ history # <<>>)
        => Observed(generator) = Observed(processModel(NewGenerator, call.model).generator)

\* The positions of the equations that have an order, and of those that have
\* a type.
Ordered(g) == {e \in DOMAIN g.mEquations : g.mEquations[e].mOrder # 0}
Resolved(g) == {e \in DOMAIN g.mEquations : g.mEquations[e].mType # "UNKNOWN"}

\* The types of the equations that the four blocks emit.
BlockTypes == {"TRUE_CONSTANT", "VARIABLE_BASED_CONSTANT", "RATE", "ALGEBRAIC"}

\* C2: after a successful run, the equations of each block are emitted in
\* increasing order of their order numbers.
C2_BlocksInCausalOrder ==
    Succeeded =>
        \A type \in BlockTypes :
            LET emitted == EquationsOfType(generator.mEquations, type, 1)
            IN  \A j, k \in DOMAIN emitted :
                    j < k => generator.mEquations[emitted[j]].mOrder
                             < generator.mEquations[emitted[k]].mOrder

\* The indices held by the registry records at the given positions.
IndicesAt(g, positions) == {g.mVariables[k].mIndex : k \in positions}

\* C3: after a run without errors, the STATE records hold exactly the indices
\* 0..stateCount()-1 and the records that variableCount() counts hold exactly
\* the indices 0..variableCount()-1.
C3_IndicesDense ==
    Succeeded =>
        /\ IndicesAt(generator, OfTypes(generator, {"STATE"}))
               = 0 .. (stateCount(generator) - 1)
        /\ IndicesAt(generator, OfTypes(generator, VariableTypes))
               = 0 .. (variableCount(generator) - 1)

\* C4: when processModel has returned and the error count is not zero, the
\* initializer and the three blocks are empty, both counts are 0 and the
\* model type is UNKNOWN.
C4_NothingObservableAfterErrors ==
    (Done /\ errorCount(generator) # 0) =>
        /\ initializeVariables(generator) = <<>>
        /\ computeConstantEquations(generator) = <<>>
        /\ computeRateEquations(generator) = <<>>
        /\ computeAlgebraicEquations(generator) = <<>>
        /\ stateCount(generator) = 0
        /\ variableCount(generator) = 0
        /\ modelType(generator) = "UNKNOWN"

\* A failed run that holds partial results: a state variable, an indexed
\* variable and an equation with a type and an order.
C4_Witness ==
    /\ Done
    /\ errorCount(generator) # 0
    /\ OfTypes(generator, {"STATE"}) # {}
    /\ Resolved(generator) # {}
    /\ \E k \in DOMAIN generator.mVariables : generator.mVariables[k].mIndex # MAX_SIZE_T

\* C5: the orders of the equations are exactly 1..N, N being the number of
\* equations that got a type, no two equations share an order, and an
\* equation that has an order keeps it.
C5_OrdersContiguousAndStable ==
    /\ [](/\ {generator.mEquations[e].mOrder : e \in Ordered(generator)}
                = 1 .. Cardinality(Resolved(generator))
          /\ Cardinality(Ordered(generator)) = Cardinality(Resolved(generator)))
    /\ [][\A e \in Ordered(generator) :
              /\ e \in DOMAIN generator'.mEquations
              /\ generator'.mEquations[e].mOrder = generator.mEquations[e].mOrder]_vars

\* A successful run that ordered two equations against their positions.
C5_Witness ==
    /\ Succeeded
    /\ \E d, e \in Ordered(generator) :
           d < e /\ generator.mEquations[d].mOrder > generator.mEquations[e].mOrder

\* The registry positions of the states that check() computed, and of the
\* other variables that have been given an index.
IndexedStates(g) ==
    {k \in DOMAIN g.mVariables : g.mVariables[k].mType = "STATE" /\ g.mVariables[k].mComputed}
IndexedVariables(g) ==
    {k \in DOMAIN g.mVariables :
        \/ g.mVariables[k].mType = "CONSTANT"
        \/ g.mVariables[k].mType # "STATE" /\ g.mVariables[k].mComputed}

\* C6: once the constants have their index, the indexed states hold the
\* indices 0, 1, ... of the state counter and the other indexed variables
\* the indices 0, 1, ... of the variable counter, without repetition, and an
\* index that has been written is never written again.
C6_IndicesWrittenOnceFromTwoCounters ==
    /\ [](call.pc \in {"check", "validate", "done"} =>
            /\ IndicesAt(generator, IndexedStates(generator))
                   = 0 .. (Cardinality(IndexedStates(generator)) - 1)
            /\ IndicesAt(generator, IndexedVariables(generator))
                   = 0 .. (Cardinality(IndexedVariables(generator)) - 1)
            /\ (call.stateIndex + 1) % Pow2(SizeBits)
                   = Cardinality(IndexedStates(generator))
            /\ (call.variableIndex + 1) % Pow2(SizeBits)
                   = Cardinality(IndexedVariables(generator)))
    /\ [][\A k \in DOMAIN generator.mVariables :
              generator.mVariables[k].mIndex # MAX_SIZE_T =>
                  /\ k \in DOMAIN generator'.mVariables
                  /\ generator'.mVariables[k].mIndex = generator.mVariables[k].mIndex]_vars

\* A successful run in which both counters issued 0 and one of them issued 1.
C6_Witness ==
    /\ Succeeded
    /\ 0 \in IndicesAt(generator, IndexedStates(generator))
    /\ 0 \in IndicesAt(generator, IndexedVariables(generator))
    /\ 1 \in IndicesAt(generator, IndexedStates(generator) \cup IndexedVariables(generator))

\* C7: the fixpoint loop makes at most one pass more than there are
\* equations, and a pass has reported progress only if it gave an order to
\* an equation: the ordered equations number at least the passes completed
\* with progress plus the pass in progress when it has reported progress.
C7_FixpointTerminates ==
    /\ call.passes <= Len(generator.mEquations) + 1
    /\ call.pc = "check" =>
           Cardinality(Ordered(generator))
               >= call.passes + (IF call.relevantCheck THEN 1 ELSE 0)

\* A run whose fixpoint needed the greatest number of passes for two or more
\* equations.
C7_Witness ==
    /\ Done
    /\ Len(generator.mEquations) >= 2
    /\ call.passes = Len(generator.mEquations) + 1

\* C8: when processModel returns from a call with the model of the call
\* before it, the initializer and the three blocks are those observed after
\* that call.
C8_SameModelSameText ==
    (Done /\ history # <<>> /\ history[Len(history)].model = call.model)
        => Text(generator) = history[Len(history)].observed.text

\* A second run on the same model whose initializer and rates block are not
\* empty.
C8_Witness ==
    /\ Done
    /\ history # <<>>
    /\ history[Len(history)].model = call.model
    /\ initializeVariables(generator) # <<>>
    /\ computeRateEquations(generator) # <<>>

\* The variables of the given components and of those they encapsulate, in
\* the order of the walk.
RECURSIVE VariablesOf(_)
VariablesOf(components) ==
    IF components = <<>> THEN <<>>
    ELSE Head(components).variables
         \o VariablesOf(Head(components).components \o Tail(components))

\* The variable with, in place of its initial value, that of the variable of
\* the model it is equivalent to, if there is one.
SwappedVariable(model, variable) ==
    LET twins == {other \in Range(VariablesOf(model.components)) :
                      hasEquivalentVariable(variable, other)}
    IN  IF twins = {} THEN variable
        ELSE [variable EXCEPT !.initialValue = (CHOOSE other \in twins : TRUE).initialValue]

RECURSIVE SwappedComponents(_, _)
SwappedComponents(model, components) ==
    [k \in DOMAIN components |->
        [components[k] EXCEPT
            !.variables = [j \in DOMAIN @ |-> SwappedVariable(model, @[j])],
            !.components = SwappedComponents(model, @)]]

\* The model in which two equivalent variables have exchanged their places
\* in the walk: each is declared where the other was.
Swapped(model) == [model EXCEPT !.components = SwappedComponents(model, @)]

\* The type and the index of every registry record.
RolesAndIndices(g) ==
    [k \in DOMAIN g.mVariables |-> <<g.mVariables[k].mType, g.mVariables[k].mIndex>>]

\* C9: a run ends with the registry types and indices that a run on the
\* model with its two equivalent variables swapped ends with.
C9_SwapInvariant ==
    Done => RolesAndIndices(generator)
                = RolesAndIndices(processModel(NewGenerator, Swapped(call.model)).generator)

\* C10 as stated: at most one registry record has the type
\* VARIABLE_OF_INTEGRATION, in every state.
C10_AtMostOneVariableOfIntegration ==
    Cardinality(OfTypes(generator, {"VARIABLE_OF_INTEGRATION"})) <= 1

\* C10: in every state without errors, at most one registry record has the
\* type VARIABLE_OF_INTEGRATION.
C10_AtMostOneVariableOfIntegrationWithoutErrors ==
    errorCount(generator) = 0
        => Cardinality(OfTypes(generator, {"VARIABLE_OF_INTEGRATION"})) <= 1

\* The variable bound by the differential on the left of an equation.
BoundVariable(equation) == Left(Left(Left(equation.mAst))).mVariable

\* A run without errors whose differentials bind the variable of integration
\* of main and a variable of sub.
C10_Witness ==
    /\ Done
    /\ errorCount(generator) = 0
    /\ Cardinality(OfTypes(generator, {"VARIABLE_OF_INTEGRATION"})) = 1
    /\ generator.mVariableOfIntegration.component = "main"
    /\ \E e \in DOMAIN generator.mEquations :
           /\ Left(generator.mEquations[e].mAst).mType = "DIFF"
           /\ BoundVariable(generator.mEquations[e]).component = "sub"

\* The differentials of an expression tree, in the order processEquationAst
\* meets them: for each, the variable its bvar binds, the literal of its
\* degree ("" without a degree element) and the differentiated variable.
RECURSIVE Differentials(_)
Differentials(ast) ==
    IF IsNull(ast) THEN <<>>
    ELSE (IF ast.mType = "DIFF"
          THEN <<[bound |-> Left(Left(ast)).mVariable,
                  degree |-> IF IsNull(Right(Left(ast))) THEN ""
                             ELSE Left(Right(Left(ast))).mValue,
                  variable |-> Right(ast).mVariable]>>
          ELSE <<>>)
         \o Differentials(ast.mLeft) \o Differentials(ast.mRight)

\* The differentials of all the equations, in document order.
RECURSIVE DifferentialsFrom(_, _)
DifferentialsFrom(mEquations, e) ==
    IF e > Len(mEquations) THEN <<>>
    ELSE Differentials(mEquations[e].mAst) \o DifferentialsFrom(mEquations, e + 1)
AllDifferentials(g) == DifferentialsFrom(g.mEquations, 1)

\* The same declared variable, or two equivalent ones.
SameQuantity(a, b) == a = b \/ hasEquivalentVariable(a, b)

\* The bound variables of the differentials are of exactly two kinds.
TwoBoundVariables(g) ==
    LET bound == {d.bound : d \in Range(AllDifferentials(g))}
    IN  \E v, w \in bound :
            /\ ~SameQuantity(v, w)
            /\ \A u \in bound : SameQuantity(u, v) \/ SameQuantity(u, w)

\* The positions of the errors whose description ends with the given text.
ErrorsEnding(g, ending) ==
    {k \in DOMAIN g.errors :
        g.errors[k].description[Len(g.errors[k].description)] = ending}

CannotBothBe == "' cannot both be a variable of integration."
CannotBeBoth == "' cannot be both a variable of integration and initialised."
FirstOrder == "' must be of the first order."
BothInitialised == "' are equivalent and cannot therefore both be initialised."

\* C11: when the differentials bind exactly two non-equivalent variables, the
\* run reports exactly one 'cannot both be a variable of integration' error,
\* and it names the variable bound by the first differential and the other
\* variable.
C11_OneTwoVoiError ==
    (Done /\ TwoBoundVariables(generator)) =>
        /\ Cardinality(ErrorsEnding(generator, CannotBothBe)) = 1
        /\ \A k \in ErrorsEnding(generator, CannotBothBe) :
               \E d \in Range(AllDifferentials(generator)) :
                   generator.errors[k]
                       = TwoVoiError(AllDifferentials(generator)[1].bound, d.bound,
                                     call.model.name)

\* The declared variables of the model of the call.
DeclaredVariables == Range(VariablesOf(call.model.components))

\* No text at all in the initializer and the three blocks.
NoText(g) ==
    /\ initializeVariables(g) = <<>>
    /\ computeConstantEquations(g) = <<>>
    /\ computeRateEquations(g) = <<>>
    /\ computeAlgebraicEquations(g) = <<>>

\* C12: when the variable bound by the first differential, or a declared
\* variable equivalent to it, carries an initial value (and no two equivalent
\* variables are both initialised), the run reports the 'cannot be both a
\* variable of integration and initialised' error and produces no text.
C12_InitialisedVoiReported ==
    (/\ Done
     /\ AllDifferentials(generator) # <<>>
     /\ ErrorsEnding(generator, BothInitialised) = {}
     /\ \E v \in DeclaredVariables :
            /\ SameQuantity(AllDifferentials(generator)[1].bound, v)
            /\ v.initialValue # "")
        => /\ ErrorsEnding(generator, CannotBeBoth) # {}
           /\ NoText(generator)

(***************************************************************************)
(* Models with defects: main encapsulates sub, which encapsulates leaf;    *)
(* sub and leaf declare a t equivalent to the t of main; main has as math  *)
(* any sequence of at most MaxEqs equations of DefectEquations; any of the *)
(* three t and the x of main may carry an initial value.                   *)
(***************************************************************************)
DefectEquations ==
    {XEq(XDiffDegree("x", "t", "2"), XCn("1.0")),        \* d2x/dt2 = 1.0
     XEq(XDiffDegree("y", "t", "3"),
         XDiffDegree("x", "t", "2")),                    \* d3y/dt3 = d2x/dt2
     XEq(XDiffDegree("x", "t", "1.0"), XCn("1.0")),      \* dx/dt = 1.0, degree 1.0
     XEq(XDiff("y", "t"), XCn("1.0")),                   \* dy/dt = 1.0
     XEq(XDiff("x", "y"), XCn("1.0"))}                   \* dx/dy = 1.0

DefectInitialisable ==
    {<<"main", "t">>, <<"sub", "t">>, <<"leaf", "t">>, <<"main", "x">>}

MakeDefectModel(mainMath, initialised) ==
    LET leaf == MakeComponent("leaf", <<"t">>, <<>>, initialised, {"t"}, <<>>)
        sub == MakeComponent("sub", <<"t">>, <<>>, initialised, {"t"}, <<leaf>>)
    IN  Model("model",
              <<MakeComponent("main", <<"t", "x", "y">>, mainMath, initialised, {"t"},
                              <<sub>>)>>)

DefectModels ==
    {MakeDefectModel(mainMath, initialised) :
        mainMath \in SeqsUpTo(DefectEquations, MaxEqs),
        initialised \in SUBSET DefectInitialisable}

\* One call of processModel on a new Generator, for every model with defects.
DefectCall ==
    /\ history = <<>>
    /\ call.pc = "idle"
    /\ \E model \in DefectModels : ProcessModel(model)

NextDefects == DefectCall \/ Run

SpecDefects == Init /\ [][NextDefects]_vars

\* The errors of the run whose description ends with the given text, in the
\* order of their report.
ErrorsOfKind(g, ending) ==
    SelectSeq(g.errors, LAMBDA error : error.description[Len(error.description)] = ending)

\* The differentials whose degree is given and is not 1, in document order.
NotFirstOrder(g) ==
    SelectSeq(AllDifferentials(g), LAMBDA d : d.degree \notin {"", "1", "1.0"})

\* The 'must be of the first order' error for each of the differentials.
OrderErrors(differentials, modelName) ==
    [k \in DOMAIN differentials |-> OrderError(differentials[k].variable, modelName)]

\* C13 as stated: the run reports one 'must be of the first order' error for
\* each differential of degree other than 1, in document order.
C13_OrderErrorPerDifferential ==
    Done => ErrorsOfKind(generator, FirstOrder)
                = OrderErrors(NotFirstOrder(generator), call.model.name)

\* C13: when the walk of the components reports no error, the run reports
\* one 'must be of the first order' error for each differential of degree
\* other than 1, in document order.
C13_OrderErrorPerDifferentialAfterCleanWalk ==
    (Done /\ ErrorsEnding(generator, BothInitialised) = {})
        => ErrorsOfKind(generator, FirstOrder)
               = OrderErrors(NotFirstOrder(generator), call.model.name)

\* A run that reports the error for the two differentials of one equation,
\* and none for the differential of degree 1.0 of another equation.
C13_Witness ==
    /\ Done
    /\ ErrorsEnding(generator, BothInitialised) = {}
    /\ Len(ErrorsOfKind(generator, FirstOrder)) = 2
    /\ ErrorsOfKind(generator, FirstOrder)[1] # ErrorsOfKind(generator, FirstOrder)[2]
    /\ \E d \in Range(AllDifferentials(generator)) : d.degree = "1.0"

\* The declared variables of the model of the call, in the order of the walk
\* of the component tree.
Visited == VariablesOf(call.model.components)

\* The first variable visited that is initialised and is the given variable
\* or an equivalent one.
FirstInitialised(v) ==
    Visited[CHOOSE k \in DOMAIN Visited :
               /\ Visited[k].initialValue # ""
               /\ SameQuantity(Visited[k], v)
               /\ \A j \in 1..(k - 1) :
                      ~(Visited[j].initialValue # "" /\ SameQuantity(Visited[j], v))]

\* The initialised variables visited after an initialised equivalent one.
InitialisedAgain ==
    SelectSeq(Visited, LAMBDA v : v.initialValue # "" /\ FirstInitialised(v) # v)

\* C14: the run reports, before any other error, one 'are equivalent and
\* cannot therefore both be initialised' error for each initialised variable
\* visited after an initialised equivalent one, naming both, and no such
\* error otherwise.
C14_OneErrorPerFurtherInitialValue ==
    Done =>
        /\ ErrorsOfKind(generator, BothInitialised)
               = [k \in DOMAIN InitialisedAgain |->
                     InitialisedTwiceError(InitialisedAgain[k],
                                           FirstInitialised(InitialisedAgain[k]),
                                           call.model.name)]
        /\ SubSeq(generator.errors, 1, Len(InitialisedAgain))
               = ErrorsOfKind(generator, BothInitialised)

\* A run on a model with three equivalent initialised variables, the first
\* of them referenced by the math of its component, and two errors.
C14_Witness ==
    /\ Done
    /\ Len(InitialisedAgain) = 2
    /\ Len(ErrorsOfKind(generator, BothInitialised)) = 2
    /\ generator.mEquations # <<>>

\* The records of the registry left without a valid role, in registry order.
Invalid(g) ==
    SelectSeq(g.mVariables, LAMBDA v : v.mType \in {"UNKNOWN", "SHOULD_BE_STATE"})

\* The errors of the final loop end with a full stop of their own.
TypeErrors(g) == ErrorsOfKind(g, ".")

\* C15: a run that ends with zero errors leaves no record UNKNOWN or
\* SHOULD_BE_STATE; a run that reaches the final loop without an error
\* reports one 'is of unknown type' error for each record left UNKNOWN and one
\* 'is used in an ODE, but it is not initialised' error for each record left
\* SHOULD_BE_STATE, and a run that reaches it with an error reports none.
C15_InvalidRolesReported ==
    Done =>
        /\ generator.errors = <<>> => Invalid(generator) = <<>>
        /\ IF TypeErrors(generator) = generator.errors
           THEN generator.errors
                    = [k \in DOMAIN Invalid(generator) |->
                          VariableTypeError(
                              Invalid(generator)[k].mVariable, call.model.name,
                              IF Invalid(generator)[k].mType = "UNKNOWN"
                              THEN "is of unknown type"
                              ELSE "is used in an ODE, but it is not initialised")]
           ELSE TypeErrors(generator) = <<>>

\* A run that ends with an error of each of the two texts.
C15_Witness ==
    /\ Done
    /\ \E j, k \in DOMAIN Invalid(generator) :
           /\ Invalid(generator)[j].mType = "UNKNOWN"
           /\ Invalid(generator)[k].mType = "SHOULD_BE_STATE"
    /\ Len(generator.errors) = Len(Invalid(generator))

\* The model of the call has two non-equivalent bound variables or a
\* differential of an order other than the first.
StructuralDefect == TwoBoundVariables(generator) \/ NotFirstOrder(generator) # <<>>

\* The errors that the checks of the equations report.
StructuralErrors(g) ==
    SelectSeq(g.errors,
              LAMBDA error : error.description[Len(error.description)]
                                 \in {CannotBothBe, CannotBeBoth, FirstOrder})

\* C16 as stated: a model with two equivalent initialised variables and a
\* structural defect gets errors of both kinds from one call.
C16_ErrorsOfBothKinds ==
    (Done /\ InitialisedAgain # <<>> /\ StructuralDefect)
        => /\ ErrorsOfKind(generator, BothInitialised) # <<>>
           /\ StructuralErrors(generator) # <<>>

\* What the check of the equation at the cursor reports on its own.
ReportedAlone ==
    processEquationAst(generator.mEquations[call.i].mAst, AstNull, AstNull, AstNull,
                       [Walked(Here) EXCEPT !.errors = <<>>]).errors

\* C16: the checks of the equations run only when the walk of the component
\* tree has reported no error, so that a model with two equivalent
\* initialised variables gets the errors of that kind alone, whatever its
\* structural defects; each equation checked adds the errors it gives rise
\* to on its own to those reported earlier in the run.
C16_StructuralChecksAfterCleanWalk ==
    /\ [](Done /\ InitialisedAgain # <<>>
             => /\ ErrorsOfKind(generator, BothInitialised) = generator.errors
                /\ generator.errors # <<>>)
    /\ [][call.pc = "equationAsts"
             => /\ InitialisedAgain = <<>>
                /\ generator'.errors = generator.errors \o ReportedAlone]_vars

\* A run on a model with two equivalent initialised variables, two bound
\* variables and a differential of the second order.
C16_Witness ==
    /\ Done
    /\ InitialisedAgain # <<>>
    /\ TwoBoundVariables(generator)
    /\ NotFirstOrder(generator) # <<>>

\* C17: the call of processModel of a new Generator on a model without
\* components leaves zero errors, a state count and a variable count of 0 and
\* an empty text for the initializer and for the three blocks.
C17_EmptyModelYieldsNothing ==
    (Done /\ call.model.components = <<>>) =>
        /\ errorCount(generator) = 0
        /\ stateCount(generator) = 0
        /\ variableCount(generator) = 0
        /\ NoText(generator)

\* The run on the model without components has returned, and the Generator
\* holds a valid model with neither variables nor equations.
C17_Witness ==
    /\ Done
    /\ call.model = EmptyModel
    /\ hasValidModel(generator)
    /\ generator.mVariables = <<>>
    /\ generator.mEquations = <<>>

(***************************************************************************)
(* Models with one equation x = e over the initialised a, b, c and d, e    *)
(* being a product or a sum of two operands of one of the kinds that the   *)
(* rules of generateOperatorCode tell apart, a product of three of them,   *)
(* or a sum of 3..MaxTerms variables.                                      *)
(***************************************************************************)
XBinary(el, a, b) == XApply(<<XOp(el), a, b>>)
XUnary(el, a) == XApply(<<XOp(el), a>>)
XPiece(value, condition) == Xml("piece", "", <<value, condition>>)
XOtherwise(value) == Xml("otherwise", "", <<value>>)
XPiecewise(ch) == Xml("piecewise", "", ch)

RenderNames == <<"a", "b", "c", "d">>

\* a + b + c + ... with n operands.
XSum(n) ==
    XApply(<<XOp("plus")>>
           \o [k \in 1..n |-> XCi(RenderNames[((k - 1) % Len(RenderNames)) + 1])])

RenderOperands ==
    {XCi("a"),
     XBinary("lt", XCi("a"), XCi("b")),
     XBinary("eq", XCi("c"), XCi("d")),
     XBinary("and", XCi("a"), XCi("b")),
     XBinary("xor", XCi("c"), XCi("d")),
     XPiecewise(<<XPiece(XCi("a"), XBinary("gt", XCi("c"), XCi("d")))>>),
     XPiecewise(<<XPiece(XCi("a"), XBinary("gt", XCi("c"), XCi("d"))),
                  XOtherwise(XCi("b"))>>),
     XBinary("plus", XCi("c"), XCi("d")),
     XBinary("minus", XCi("c"), XCi("d")),
     XUnary("plus", XCi("c")),
     XUnary("minus", XCi("c")),
     XBinary("times", XCi("a"), XCi("b")),
     XSum(3)}

RenderExpressions ==
    {XBinary(el, p, q) : el \in {"times", "plus"}, p \in RenderOperands,
                         q \in RenderOperands}
    \cup {XApply(<<XOp("times"), XBinary("lt", XCi("a"), XCi("b")),
                   XBinary("minus", XCi("c"), XCi("d")),
                   XBinary("plus", XCi("a"), XCi("b"))>>)}
    \cup {XSum(n) : n \in 3..MaxTerms}

RenderModels ==
    {Model("model",
           <<MakeComponent("main", RenderNames \o <<"x">>, <<XEq(XCi("x"), e)>>,
                           {<<"main", RenderNames[k]>> : k \in DOMAIN RenderNames},
                           {}, <<>>)>>) :
        e \in RenderExpressions}

\* One call of processModel on a new Generator, for every model of the family.
RenderCall ==
    /\ history = <<>>
    /\ call.pc = "idle"
    /\ \E model \in RenderModels : ProcessModel(model)

NextRender == RenderCall \/ Run

SpecRender == Init /\ [][NextRender]_vars

\* The nodes of a tree.
RECURSIVE Nodes(_)
Nodes(ast) ==
    IF IsNull(ast) THEN {}
    ELSE {ast} \cup Nodes(ast.mLeft) \cup Nodes(ast.mRight)

\* The nodes of the equations of the Generator.
EquationNodes == UNION {Nodes(generator.mEquations[e].mAst) : e \in DOMAIN generator.mEquations}

\* The text of a node.
Code(ast) == generateCode(generator, ast, AstNull, AstNull)

StartsWith(text, start) ==
    Len(text) >= Len(start) /\ SubSeq(text, 1, Len(start)) = start
EndsWith(text, end) ==
    Len(text) >= Len(end) /\ SubSeq(text, Len(text) - Len(end) + 1, Len(text)) = end

\* A relational, logical/bitwise or piecewise expression, or a binary sum or
\* difference.
BelowTimes(ast) ==
    \/ ast.mType \in {"EQEQ", "NEQ", "LT", "LEQ", "GT", "GEQ", "AND", "OR", "XOR",
                      "PIECEWISE"}
    \/ ast.mType \in {"PLUS", "MINUS"} /\ ~IsNull(ast.mRight)

\* A sum of variables, of whatever shape.
RECURSIVE SumOfVariables(_)
SumOfVariables(ast) ==
    \/ ast.mType = "CI"
    \/ /\ ast.mType = "PLUS"
       /\ SumOfVariables(ast.mLeft)
       /\ IsNull(ast.mRight) \/ SumOfVariables(ast.mRight)

\* C18: in the text of a times node, each operand that is a relational,
\* logical/bitwise or piecewise expression or a binary sum or difference
\* stands between parentheses, on the left as on the right; in the text of a
\* plus node a plus operand stands without parentheses, and the text of a sum
\* of variables holds no parenthesis at all.
C18_ParenthesesUnderTimesNotUnderPlus ==
    Succeeded =>
        \A n \in EquationNodes :
            /\ (n.mType = "TIMES" /\ BelowTimes(n.mLeft))
                   => StartsWith(Code(n), Parenthesized(Code(n.mLeft)) \o <<"*">>)
            /\ (n.mType = "TIMES" /\ BelowTimes(n.mRight))
                   => EndsWith(Code(n), <<"*">> \o Parenthesized(Code(n.mRight)))
            /\ (n.mType = "PLUS" /\ ~IsNull(n.mRight) /\ n.mLeft.mType = "PLUS")
                   => StartsWith(Code(n), Code(n.mLeft) \o <<"+">>)
            /\ (n.mType = "PLUS" /\ n.mRight.mType = "PLUS")
                   => EndsWith(Code(n), <<"+">> \o Code(n.mRight))
            /\ SumOfVariables(n) => "(" \notin Range(Code(n))

\* The run on x = (a < b) * (c - d) has returned and the block of the
\* constants keeps both pairs of parentheses.
C18_Witness ==
    /\ Succeeded
    /\ computeConstantEquations(generator)
           = <<"variables", "[", "4", "]", " = ",
               "(", "variables", "[", "0", "]", " < ", "variables", "[", "1", "]", ")",
               "*",
               "(", "variables", "[", "2", "]", "-", "variables", "[", "3", "]", ")",
               ";", "\n">>

\* The registry positions of the variables that a tree refers to, and whether
\* the tree holds a differential.
References(g, ast) ==
    {FindGeneratorVariable(g.mVariables, n.mVariable) : n \in {m \in Nodes(ast) : m.mType = "CI"}}
HasDifferential(ast) == \E n \in Nodes(ast) : n.mType = "DIFF"

ConstantTypes ==
    {"CONSTANT", "COMPUTED_TRUE_CONSTANT", "COMPUTED_VARIABLE_BASED_CONSTANT"}

\* The equation has an order and, beside the variable it determines, it
\* refers to at least one variable and to constants only.
DependsOnConstantsOnly(g, e) ==
    LET equation == g.mEquations[e]
        others == References(g, equation.mAst) \ {OnlyVariable(equation)}
    IN  /\ e \in Ordered(g)
        /\ ~HasDifferential(equation.mAst)
        /\ others # {}
        /\ \A at \in others : g.mVariables[at].mType \in ConstantTypes

\* C19: when processModel has returned, a variable determined by an equation
\* whose other references are all constants, initialised or computed, is a
\* COMPUTED_VARIABLE_BASED_CONSTANT and the equation a VARIABLE_BASED_CONSTANT.
C19_ConstantsBasedOnConstants ==
    Done =>
        \A e \in DOMAIN generator.mEquations :
            DependsOnConstantsOnly(generator, e) =>
                /\ generator.mVariables[OnlyVariable(generator.mEquations[e])].mType
                       = "COMPUTED_VARIABLE_BASED_CONSTANT"
                /\ generator.mEquations[e].mType = "VARIABLE_BASED_CONSTANT"

\* The array slot of the variable that the equation determines: that of the
\* rates for an equation of type RATE, that of the variables otherwise.
DeterminedSlot(g, equation) ==
    <<IF equation.mType = "RATE" THEN "rates" ELSE "variables", "[",
      ToString(g.mVariables[OnlyVariable(equation)].mIndex), "]">>

\* C20: after a successful run, the statement emitted for an equation that
\* has a type starts with the array slot of the variable that the equation
\* determines, followed by the assignment operator.
C20_StatementsAssignTheDeterminedVariable ==
    Succeeded =>
        \A e \in Resolved(generator) :
            StartsWith(Statement(generator, generator.mEquations[e]),
                       DeterminedSlot(generator, generator.mEquations[e]) \o <<" = ">>)

\* The variable at the given registry position is determined by an equation
\* other than e.
ComputedElsewhere(g, e, at) ==
    \E other \in Ordered(g) \ {e} : OnlyVariable(g.mEquations[other]) = at

\* Equation e is an overconstraint: each variable it refers to is the
\* variable of integration, an initialised constant or the variable that
\* another equation determines.
Overconstraint(g, e) ==
    /\ References(g, g.mEquations[e].mAst) # {}
    /\ \A at \in References(g, g.mEquations[e].mAst) :
           \/ g.mVariables[at].mType \in {"VARIABLE_OF_INTEGRATION", "CONSTANT"}
           \/ ComputedElsewhere(g, e, at)
Overconstraints(g) == {e \in DOMAIN g.mEquations : Overconstraint(g, e)}

\* The number of statements of a text.
Lines(text) == Cardinality({k \in DOMAIN text : text[k] = "\n"})

\* C21: when processModel has returned, an equation that is an overconstraint
\* has neither an order nor a type, no error of the final loop names a
\* variable it refers to, and the initializer and the three blocks hold no
\* more statements than there are initialised records and other equations.
C21_OverconstraintsLeftAlone ==
    Done =>
        /\ \A e \in Overconstraints(generator) :
               /\ generator.mEquations[e].mOrder = 0
               /\ generator.mEquations[e].mType = "UNKNOWN"
               /\ \A at \in References(generator, generator.mEquations[e].mAst),
                     k \in DOMAIN generator.errors :
                      generator.errors[k]
                          \notin {VariableTypeError(generator.mVariables[at].mVariable,
                                                    call.model.name, errorType) :
                                      errorType \in {"is of unknown type",
                                                     "is used in an ODE, but it is not initialised"}}
        /\ Lines(initializeVariables(generator))
               + Lines(computeConstantEquations(generator))
               + Lines(computeRateEquations(generator))
               + Lines(computeAlgebraicEquations(generator))
             <= Cardinality(OfTypes(generator, {"STATE", "CONSTANT"}))
                + Len(generator.mEquations) - Cardinality(Overconstraints(generator))

\* A run that ends without error on a model that gives a value to x twice,
\* and a statement for one of the two equations only.
C21_Witness ==
    /\ Succeeded
    /\ Overconstraints(generator) # {}
    /\ Ordered(generator) # {}
    /\ Lines(initializeVariables(generator)) = 1

(***************************************************************************)
(* Models whose equations refer to the variable of integration outside a   *)
(* differential: main has as math any sequence of at most MaxEqs equations *)
(* of FixpointEquations, and x and y may carry an initial value.           *)
(***************************************************************************)
FixpointEquations ==
    {XEq(XDiff("x", "t"), XCn("1.0")),                   \* dx/dt = 1.0
     XEq(XCi("y"), XCi("t")),                            \* y = t
     XEq(XCi("y"), XCi("x")),                            \* y = x
     XEq(XDiff("y", "t"), XPlus2(XCi("x"), XCi("t")))}   \* dy/dt = x+t

FixpointModels ==
    {MakeModel(mainMath, <<>>, initialised, {}) :
        mainMath \in SeqsUpTo(FixpointEquations, MaxEqs),
        initialised \in SUBSET {<<"main", "x">>, <<"main", "y">>}}

\* One call of processModel on a new Generator, for every model of the family.
FixpointCall ==
    /\ history = <<>>
    /\ call.pc = "idle"
    /\ \E model \in FixpointModels : ProcessModel(model)

NextFixpoint == FixpointCall \/ Run

SpecFixpoint == Init /\ [][NextFixpoint]_vars

\* A check() call is about to run on the equation at the cursor.
AtCheck == call.pc = "check" /\ call.i <= Len(generator.mEquations)

\* The registry positions that the step removes from the two lists of the
\* equation at the cursor.
RemovedVariables ==
    Range(generator.mEquations[call.i].mVariables)
        \ Range(generator'.mEquations[call.i].mVariables)
RemovedOdeVariables ==
    Range(generator.mEquations[call.i].mOdeVariables)
        \ Range(generator'.mEquations[call.i].mOdeVariables)

\* C22 as stated: a check removes from the list of the variables only
\* computed variables, states and constants, and from the list of the ODE
\* variables only computed variables and the variable of integration.
C22_KnownVariablesOnlyRemoved ==
    [][AtCheck =>
          /\ \A at \in RemovedVariables :
                 \/ generator.mVariables[at].mComputed
                 \/ generator.mVariables[at].mType \in {"STATE", "CONSTANT"}
          /\ \A at \in RemovedOdeVariables :
                 \/ generator.mVariables[at].mComputed
                 \/ generator.mVariables[at].mType = "VARIABLE_OF_INTEGRATION"]_vars

\* C22: a check removes from the list of the variables only computed
\* variables, states, constants and the variable of integration, and from
\* the list of the ODE variables only computed variables and the variable of
\* integration: states and constants are known in the first list only, the
\* variable of integration in both.
C22_KnownVariablesAndIntegrationVariableOnlyRemoved ==
    [][AtCheck =>
          /\ \A at \in RemovedVariables :
                 \/ generator.mVariables[at].mComputed
                 \/ generator.mVariables[at].mType
                        \in {"VARIABLE_OF_INTEGRATION", "STATE", "CONSTANT"}
          /\ \A at \in RemovedOdeVariables :
                 \/ generator.mVariables[at].mComputed
                 \/ generator.mVariables[at].mType = "VARIABLE_OF_INTEGRATION"]_vars

\* The equation at position e refers to the variable of integration outside
\* a differential and no longer holds it in its list of variables.
IntegrationVariableRemoved(g, e) ==
    \E at \in References(g, g.mEquations[e].mAst) :
        /\ g.mVariables[at].mType = "VARIABLE_OF_INTEGRATION"
        /\ ~HasDifferential(g.mEquations[e].mAst)
        /\ at \notin Range(g.mEquations[e].mVariables)

\* A run that ends without error, with an equation that has lost its
\* reference to the variable of integration and a rate equation whose state
\* has stayed in the list of the ODE variables.
C22_Witness ==
    /\ Succeeded
    /\ \E e \in Ordered(generator) : IntegrationVariableRemoved(generator, e)
    /\ \E e \in Ordered(generator) :
           /\ generator.mEquations[e].mType = "RATE"
           /\ Len(generator.mEquations[e].mOdeVariables) = 1

(***************************************************************************)
(* One record of the registry on its own: it is constructed on one of the  *)
(* equivalent variables of RecordVariables and then receives at most       *)
(* MaxEvents calls of setVariable and makeState, in any order; history     *)
(* holds the calls made, that of the constructor first.                    *)
(***************************************************************************)
RecordVariables ==
    {Variable("main", "x", "", "x"), Variable("main", "x", "3.0", "x"),
     Variable("sub", "x", "", "x"), Variable("sub", "x", "7.0", "x")}

InitRecord ==
    /\ call = IdleCall
    /\ \E variable \in RecordVariables :
           /\ generator = [NewGenerator EXCEPT
                              !.mVariables = <<NewGeneratorVariableImpl(variable)>>]
           /\ history = <<[event |-> "setVariable", variable |-> variable]>>

\* generatorVariable->setVariable(variable)
SetVariable(variable) ==
    /\ Len(history) <= MaxEvents
    /\ generator' = [generator EXCEPT !.mVariables[1] = setVariable(@, variable)]
    /\ history' = Append(history, [event |-> "setVariable", variable |-> variable])
    /\ UNCHANGED call

\* generatorVariable->makeState()
MakeState ==
    /\ Len(history) <= MaxEvents
    /\ generator' = [generator EXCEPT !.mVariables[1] = makeState(@)]
    /\ history' = Append(history, [event |-> "makeState", variable |-> NoVariable])
    /\ UNCHANGED call

NextRecord ==
    \/ \E variable \in RecordVariables : SetVariable(variable)
    \/ MakeState

SpecRecord == InitRecord /\ [][NextRecord]_vars

\* The record is one of SpecRecord.
IsRecord == call.pc = "idle" /\ history # <<>>

\* The record has seen a non-empty initial value: that of the variable of
\* its construction, or that of the variable of a setVariable call since.
SeenInitialValue == \E k \in DOMAIN history : history[k].variable.initialValue # ""
\* The record has been referred to as the dependent variable of an ODE.
SeenAsState == \E k \in DOMAIN history : history[k].event = "makeState"

\* C23: the role of a record is CONSTANT when it has seen an initial value
\* only, SHOULD_BE_STATE when it has seen a reference as ODE dependent only,
\* STATE when it has seen both, in whatever order and however many times,
\* and UNKNOWN when it has seen neither.
C23_RoleEventsCommute ==
    IsRecord =>
        generator.mVariables[1].mType
            = (IF SeenInitialValue /\ SeenAsState THEN "STATE"
               ELSE IF SeenInitialValue THEN "CONSTANT"
               ELSE IF SeenAsState THEN "SHOULD_BE_STATE"
               ELSE "UNKNOWN")

\* A record that has become a STATE from SHOULD_BE_STATE - the reference
\* came first - and has received both events again since.
C23_Witness ==
    /\ IsRecord
    /\ Len(history) = 5
    /\ history[1].variable.initialValue = ""
    /\ history[2].event = "makeState"
    /\ history[3].event = "setVariable" /\ history[3].variable.initialValue # ""
    /\ history[4].event = "makeState"
    /\ history[5].event = "setVariable" /\ history[5].variable.initialValue # ""
    /\ generator.mVariables[1].mVariable.initialValue # ""
    /\ generator.mVariables[1].mType = "STATE"

\* The check() call about to run on the equation at the cursor does not
\* return at once: the equation has no order and is not left with one
\* variable of a known type.
ChecksOn ==
    LET equation == generator.mEquations[call.i]
    IN  /\ AtCheck
        /\ equation.mOrder = 0
        /\ ~(/\ Len(equation.mVariables) + Len(equation.mOdeVariables) = 1
             /\ generator.mVariables[OnlyVariable(equation)].mType # "UNKNOWN")

\* C24: a check that leaves the equation with one variable in its two lists
\* gives a variable of unknown type the type COMPUTED_TRUE_CONSTANT if the
\* equation is still truly constant, else COMPUTED_VARIABLE_BASED_CONSTANT if
\* it is still variable-based constant, else ALGEBRAIC; the equation gets the
\* type RATE, TRUE_CONSTANT, VARIABLE_BASED_CONSTANT or ALGEBRAIC that goes
\* with the type of the variable, and a variable that should be a state
\* is left without index and computed flag, and the equation without order.
C24_ClassificationOfTheLastVariable ==
    [][(/\ ChecksOn
        /\ Len(generator'.mEquations[call.i].mVariables)
               + Len(generator'.mEquations[call.i].mOdeVariables) = 1)
         => LET after == generator'.mEquations[call.i]
                at == OnlyVariable(after)
                before == generator.mVariables[at]
                variable == generator'.mVariables[at]
            IN  /\ before.mType = "UNKNOWN"
                       => variable.mType
                              = (IF after.mTrulyConstant THEN "COMPUTED_TRUE_CONSTANT"
                                 ELSE IF after.mVariableBasedConstant
                                      THEN "COMPUTED_VARIABLE_BASED_CONSTANT"
                                 ELSE "ALGEBRAIC")
                /\ before.mType # "UNKNOWN" => variable.mType = before.mType
                /\ variable.mType # "SHOULD_BE_STATE"
                       => /\ after.mOrder # 0
                          /\ variable.mComputed
                          /\ variable.mIndex # MAX_SIZE_T
                          /\ after.mType = "RATE" <=> variable.mType = "STATE"
                          /\ after.mType = "TRUE_CONSTANT"
                                 <=> variable.mType = "COMPUTED_TRUE_CONSTANT"
                          /\ after.mType = "VARIABLE_BASED_CONSTANT"
                                 <=> variable.mType = "COMPUTED_VARIABLE_BASED_CONSTANT"
                          /\ after.mType = "ALGEBRAIC"
                                 <=> variable.mType
                                         \notin {"STATE", "COMPUTED_TRUE_CONSTANT",
                                                 "COMPUTED_VARIABLE_BASED_CONSTANT"}
                /\ variable.mType = "SHOULD_BE_STATE"
                       => /\ after.mOrder = 0
                          /\ after.mType = "UNKNOWN"
                          /\ ~variable.mComputed
                          /\ variable.mIndex = MAX_SIZE_T]_vars

\* The types of the equations at the given positions.
TypesAt(g, positions) == {g.mEquations[e].mType : e \in positions}

\* A run that has returned with equations of two of the four types, or with
\* an equation left, without order, with a variable that should be a state.
C24_Witness ==
    /\ Done
    /\ \/ Cardinality(TypesAt(generator, Resolved(generator))) = 2
       \/ \E e \in DOMAIN generator.mEquations :
              /\ generator.mEquations[e].mOrder = 0
              /\ generator.mEquations[e].mVariables = <<>>
              /\ Len(generator.mEquations[e].mOdeVariables) = 1
              /\ generator.mVariables[generator.mEquations[e].mOdeVariables[1]].mType
                     = "SHOULD_BE_STATE"

\* The level the two flags of an equation encode: 2 for a true constant, 1
\* for a variable-based constant, 0 for neither.
ConstantLevel(equation) ==
    IF equation.mTrulyConstant THEN 2
    ELSE IF equation.mVariableBasedConstant THEN 1
    ELSE 0

\* C25: in every state of a run, an equation that is truly constant is
\* variable-based constant, and no step of the run sets one of the two flags
\* of an equation from false to true.
C25_ConstantFlagsOnlyDecrease ==
    /\ [](\A e \in DOMAIN generator.mEquations :
              generator.mEquations[e].mTrulyConstant
                  => generator.mEquations[e].mVariableBasedConstant)
    /\ [][\A e \in DOMAIN generator.mEquations \cap DOMAIN generator'.mEquations :
              /\ generator'.mEquations[e].mTrulyConstant
                     => generator.mEquations[e].mTrulyConstant
              /\ generator'.mEquations[e].mVariableBasedConstant
                     => generator.mEquations[e].mVariableBasedConstant]_vars

\* A run that has returned with equations of two of the levels below that of
\* a true constant.
C25_Witness ==
    /\ Done
    /\ {0, 1} \subseteq {ConstantLevel(generator.mEquations[e]) :
                            e \in DOMAIN generator.mEquations}

\* processModel is past the checks of the equations with an error reported.
PastTheChecksWithErrors ==
    /\ call.pc \in {"constants", "check", "validate"}
    /\ errorCount(generator) # 0

\* No equation has an order or a type, and no variable is computed or of a
\* type that check() gives.
Uncausalized(g) ==
    /\ \A e \in DOMAIN g.mEquations :
           g.mEquations[e].mOrder = 0 /\ g.mEquations[e].mType = "UNKNOWN"
    /\ \A k \in DOMAIN g.mVariables :
           /\ ~g.mVariables[k].mComputed
           /\ g.mVariables[k].mType
                  \notin {"COMPUTED_TRUE_CONSTANT", "COMPUTED_VARIABLE_BASED_CONSTANT",
                          "ALGEBRAIC"}

\* C26: once the walk of the components and the checks of the equations
\* have reported an error, the rest of the run calls check() on no equation:
\* the equations keep no order and no type, the variables their type and
\* their computed flag, and the final loop adds no error to those reported.
C26_ErrorsSkipCausalization ==
    /\ [](PastTheChecksWithErrors => Uncausalized(generator))
    /\ [][PastTheChecksWithErrors
             => /\ call'.pc \in {"validate", "done"}
                /\ generator'.mEquations = generator.mEquations
                /\ generator'.errors = generator.errors
                /\ Uncausalized(generator')
                /\ \A k \in DOMAIN generator.mVariables :
                       generator'.mVariables[k].mType = generator.mVariables[k].mType]_vars

\* A run that has returned with an error of the checks of the equations,
\* with a variable that should be a state, and without an error of the
\* final loop.
C26_Witness ==
    /\ Done
    /\ StructuralErrors(generator) # <<>>
    /\ Invalid(generator) # <<>>
    /\ \E k \in DOMAIN generator.mVariables :
           generator.mVariables[k].mType = "SHOULD_BE_STATE"
    /\ TypeErrors(generator) = <<>>

(***************************************************************************)
(* Models with one equation x = a power b over the initialised a, b, c and *)
(* d, the base and the exponent being of one of the kinds that the power   *)
(* rule of generateOperatorCode tells apart, given to a Generator whose    *)
(* profile is the default one or one with a power operator.                *)
(***************************************************************************)
XRoot(degree, a) == XApply(<<XOp("root"), Xml("degree", "", <<degree>>), a>>)

PowerOperands ==
    {XCi("a"),
     XCn("3.0"),
     XUnary("minus", XCi("c")),
     XBinary("minus", XCi("c"), XCi("d")),
     XUnary("plus", XCi("c")),
     XBinary("plus", XCi("c"), XCi("d")),
     XBinary("times", XCi("a"), XCi("b")),
     XBinary("divide", XCi("a"), XCi("b")),
     XBinary("power", XCi("c"), XCi("d")),
     XRoot(XCi("c"), XCi("d")),
     XBinary("lt", XCi("a"), XCi("b")),
     XBinary("and", XCi("a"), XCi("b")),
     XPiecewise(<<XPiece(XCi("a"), XBinary("gt", XCi("c"), XCi("d")))>>)}

PowerModels ==
    {Model("model",
           <<MakeComponent("main", RenderNames \o <<"x">>,
                           <<XEq(XCi("x"), XBinary("power", base, exponent))>>,
                           {<<"main", RenderNames[k]>> : k \in DOMAIN RenderNames},
                           {}, <<>>)>>) :
        base \in PowerOperands, exponent \in PowerOperands}

\* A profile with a power operator.
PowerOperatorProfile == [Profile EXCEPT !.hasPowerOperator = TRUE, !.powerString = "^^"]

\* generator.setProfile(profile) on a new Generator.
SetProfile(profile) ==
    /\ history = <<>>
    /\ call.pc = "idle"
    /\ generator.mProfile # profile
    /\ generator' = setProfile(generator, profile)
    /\ UNCHANGED <<call, history>>

\* One call of processModel, for every model of the family.
PowerCall ==
    /\ history = <<>>
    /\ call.pc = "idle"
    /\ \E model \in PowerModels : ProcessModel(model)

NextPower == SetProfile(PowerOperatorProfile) \/ PowerCall \/ Run

SpecPower == Init /\ [][NextPower]_vars

\* The power nodes that the Generator renders with the power operator of its
\* profile.
InfixPowers ==
    {n \in EquationNodes :
         /\ n.mType = "POWER"
         /\ generator.mProfile.hasPowerOperator
         /\ ~HasValue(Code(n.mRight), {"0.5", "2", "2.0"})}

\* The top operators for which an exponent is to stand between parentheses.
ParenthesizedExponents ==
    {"MINUS", "TIMES", "DIVIDE", "POWER", "ROOT", "EQEQ", "NEQ", "LT", "LEQ", "GT",
     "GEQ", "AND", "OR", "XOR", "PIECEWISE"}

\* C27: in the text of a power node rendered with the power operator of the
\* profile, an exponent that is a unary or binary minus, a times, divide,
\* power, root, relational, logical/bitwise or piecewise expression stands
\* between parentheses, and an exponent that is a variable or a literal
\* stands without, whatever the base.
C27_ExponentParenthesizedByItsOwnOperator ==
    Succeeded =>
        \A n \in InfixPowers :
            /\ n.mRight.mType \in ParenthesizedExponents
                   => EndsWith(Code(n), <<generator.mProfile.powerString>>
                                        \o Parenthesized(Code(n.mRight)))
            /\ n.mRight.mType \in {"CI", "CN"}
                   => EndsWith(Code(n), <<generator.mProfile.powerString>>
                                        \o Code(n.mRight))

(***************************************************************************)
(* Models with one equation x = e over the initialised a, b, c and d, e    *)
(* being a binary operator on two operands that are a variable, a unary or *)
(* a binary plus or minus, or a root of such an operand, given to a        *)
(* Generator whose profile is the default one or one with a power          *)
(* operator.                                                               *)
(***************************************************************************)
SignOperands ==
    {XCi("a"),
     XUnary("plus", XCi("c")),
     XUnary("minus", XCi("c")),
     XBinary("plus", XCi("c"), XCi("d")),
     XBinary("minus", XCi("c"), XCi("d"))}

BinaryOperators == {"plus", "minus", "times", "divide", "and", "or", "xor", "power"}

SignExpressions ==
    {XBinary(el, p, q) : el \in BinaryOperators, p \in SignOperands, q \in SignOperands}
    \cup {XRoot(XCi("b"), p) : p \in SignOperands}

SignModels ==
    {Model("model",
           <<MakeComponent("main", RenderNames \o <<"x">>, <<XEq(XCi("x"), e)>>,
                           {<<"main", RenderNames[k]>> : k \in DOMAIN RenderNames},
                           {}, <<>>)>>) :
        e \in SignExpressions}

\* One call of processModel, for every model of the family.
SignCall ==
    /\ history = <<>>
    /\ call.pc = "idle"
    /\ \E model \in SignModels : ProcessModel(model)

NextSign == SetProfile(PowerOperatorProfile) \/ SignCall \/ Run

SpecSign == Init /\ [][NextSign]_vars

\* A unary plus or minus, a unary minus.
UnarySign(ast) == ast.mType \in {"PLUS", "MINUS"} /\ IsNull(ast.mRight)
UnaryMinus(ast) == ast.mType = "MINUS" /\ IsNull(ast.mRight)

\* The nodes of the given types that generateOperatorCode renders: a power or
\* a root only under a profile with a power operator.
OperatorNodes(types) ==
    {n \in EquationNodes :
         /\ n.mType \in types
         /\ ~IsNull(n.mRight)
         /\ n.mType \in {"POWER", "ROOT"} => generator.mProfile.hasPowerOperator}

\* The operand of the node stands between parentheses in its text: the left
\* operand comes first and the right one last, but for a root, whose right
\* operand comes first.
LeftInParentheses(n) == StartsWith(Code(n), Parenthesized(Code(n.mLeft)))
RightInParentheses(n) ==
    IF n.mType = "ROOT" THEN StartsWith(Code(n), Parenthesized(Code(n.mRight)))
    ELSE EndsWith(Code(n), Parenthesized(Code(n.mRight)))

\* C28 as stated: no binary operator puts a unary plus or a unary minus
\* between parentheses, on the left or on the right.
C28_UnarySignsNeverParenthesized ==
    Succeeded =>
        \A n \in OperatorNodes({"PLUS", "MINUS", "TIMES", "DIVIDE", "AND", "OR", "XOR",
                                "POWER", "ROOT"}) :
            /\ UnarySign(n.mLeft) => ~LeftInParentheses(n)
            /\ UnarySign(n.mRight) => ~RightInParentheses(n)

\* C28: a plus, times, divide, and, or or xor node puts no unary plus and no
\* unary minus between parentheses, nor does a minus node on its left; a
\* minus node puts a unary minus on its right between parentheses and a unary
\* plus not; a power node, on its left, and a root node, on its right, rendered
\* with the power operator of the profile, put a unary minus between
\* parentheses and a unary plus not.
C28_UnaryMinusParenthesizedUnderMinusPowerAndRoot ==
    Succeeded =>
        /\ \A n \in OperatorNodes({"PLUS", "TIMES", "DIVIDE", "AND", "OR", "XOR"}) :
               /\ UnarySign(n.mLeft) => ~LeftInParentheses(n)
               /\ UnarySign(n.mRight) => ~RightInParentheses(n)
        /\ \A n \in OperatorNodes({"MINUS"}) :
               /\ UnarySign(n.mLeft) => ~LeftInParentheses(n)
               /\ UnarySign(n.mRight) => (RightInParentheses(n) <=> UnaryMinus(n.mRight))
        /\ \A n \in OperatorNodes({"POWER"}) :
               UnarySign(n.mLeft) => (LeftInParentheses(n) <=> UnaryMinus(n.mLeft))
        /\ \A n \in OperatorNodes({"ROOT"}) :
               UnarySign(n.mRight) => (RightInParentheses(n) <=> UnaryMinus(n.mRight))

\* A run that has returned the text of a difference of two unary minus.
C28_Witness ==
    /\ Succeeded
    /\ \E n \in OperatorNodes({"MINUS"}) : UnaryMinus(n.mLeft) /\ UnaryMinus(n.mRight)

(***************************************************************************)
(* Models with one equation x = e over the initialised a, b, c and d, e    *)
(* being min, max, gcd or lcm of 2..MaxTerms variables, one of them        *)
(* applied to a variable and an application of one of them, on either      *)
(* side, or to a sum, or a sum of an application and a variable.           *)
(***************************************************************************)
MinMaxFunctions == {"min", "max", "gcd", "lcm"}

\* f(a, b, c, ...) with n operands.
XFunction(f, n) ==
    XApply(<<XOp(f)>>
           \o [k \in 1..n |-> XCi(RenderNames[((k - 1) % Len(RenderNames)) + 1])])

MinMaxExpressions ==
    {XFunction(f, n) : f \in MinMaxFunctions, n \in 2..MaxTerms}
    \cup {XBinary(f, XCi("a"), XBinary(h, XCi("b"), XCi("c"))) :
            f \in MinMaxFunctions, h \in MinMaxFunctions}
    \cup {XBinary(f, XBinary(h, XCi("a"), XCi("b")), XCi("c")) :
            f \in MinMaxFunctions, h \in MinMaxFunctions}
    \cup {XBinary(f, XBinary("plus", XCi("a"), XCi("b")), XCi("c")) : f \in MinMaxFunctions}
    \cup {XBinary("plus", XBinary(f, XCi("a"), XCi("b")), XCi("c")) : f \in MinMaxFunctions}

MinMaxModels ==
    {Model("model",
           <<MakeComponent("main", RenderNames \o <<"x">>, <<XEq(XCi("x"), e)>>,
                           {<<"main", RenderNames[k]>> : k \in DOMAIN RenderNames},
                           {}, <<>>)>>) :
        e \in MinMaxExpressions}

\* One call of processModel on a new Generator, for every model of the family.
MinMaxCall ==
    /\ history = <<>>
    /\ call.pc = "idle"
    /\ \E model \in MinMaxModels : ProcessModel(model)

NextMinMax == MinMaxCall \/ Run

SpecMinMax == Init /\ [][NextMinMax]_vars

MinMaxTypes == {"MIN", "MAX", "GCD", "LCM"}

\* The text holds the part, in one piece.
Contains(text, part) ==
    \E k \in 1..(Len(text) - Len(part) + 1) : SubSeq(text, k, k + Len(part) - 1) = part

\* The text of a node, the function name and the outer parentheses left out.
Arguments(ast) == SubSeq(Code(ast), 3, Len(Code(ast)) - 1)

\* C29: the text of a min, max, gcd or lcm node holds the arguments of its
\* right branch in its own argument list when the branch is a node of the
\* same function, and holds the text of a branch that is a node of another
\* of these functions as it stands, with its function name and parentheses.
C29_OnlySameFunctionChainsMerged ==
    Succeeded =>
        \A n \in {m \in EquationNodes : m.mType \in MinMaxTypes} :
            /\ n.mRight.mType = n.mType
                   => EndsWith(Code(n), <<", ">> \o Arguments(n.mRight) \o <<")">>)
            /\ \A branch \in {n.mLeft, n.mRight} :
                   (branch.mType \in MinMaxTypes /\ branch.mType # n.mType)
                       => Contains(Code(n), Code(branch))

\* The references to variables below a node, each with the node it hangs on.
RECURSIVE ReferencesBelow(_)
ReferencesBelow(ast) ==
    IF IsNull(ast) THEN {}
    ELSE {[ast |-> child, mParent |-> ast] :
              child \in {c \in {ast.mLeft, ast.mRight} : c.mType = "CI"}}
         \cup ReferencesBelow(ast.mLeft) \cup ReferencesBelow(ast.mRight)

\* The references of the equations of the Generator.
EquationReferences ==
    UNION {ReferencesBelow(generator.mEquations[e].mAst) : e \in DOMAIN generator.mEquations}

\* The indexed access into the given array for a registry record.
Indexed(array, record) == <<array, "[", ToString(record.mIndex), "]">>

\* C30: after a run without error, a reference to a variable has for text
\* the symbol of the variable of integration if the record of the variable is
\* of that type, the rates array at the index of the record if the record is
\* a state and the reference hangs on a differential, the states array at
\* that index if the record is a state and the reference hangs elsewhere, and
\* the variables array at that index otherwise; the initializer names a state
\* by the states array at the index of its record.
C30_ReferencesNamedByTheirRecord ==
    Succeeded =>
        /\ \A reference \in EquationReferences :
               LET record == generator.mVariables[
                                 FindGeneratorVariable(generator.mVariables,
                                                       reference.ast.mVariable)]
                   text == generateCode(generator, reference.ast, reference.mParent,
                                        AstNull)
               IN  text = (IF record.mType = "VARIABLE_OF_INTEGRATION"
                           THEN <<generator.mProfile.variableOfIntegrationString>>
                           ELSE IF record.mType = "STATE"
                           THEN IF reference.mParent.mType = "DIFF"
                                THEN Indexed(generator.mProfile.ratesArrayString, record)
                                ELSE Indexed(generator.mProfile.statesArrayString, record)
                           ELSE Indexed(generator.mProfile.variablesArrayString, record))
        /\ \A k \in DOMAIN generator.mVariables :
               generator.mVariables[k].mType = "STATE"
                   => Contains(initializeVariables(generator),
                               Indexed(generator.mProfile.statesArrayString,
                                       generator.mVariables[k])
                               \o <<" = ", generator.mVariables[k].mVariable.initialValue>>)

\* A run that has returned the rate equations of two states, the second on
\* the first state and the variable of integration.
C30_Witness ==
    /\ Succeeded
    /\ computeRateEquations(generator)
           = <<"rates", "[", "0", "]", " = ", "1.0", ";", "\n",
               "rates", "[", "1", "]", " = ", "states", "[", "0", "]", "+", "voi",
               ";", "\n">>
====
